---------------------------- MODULE Spec2Model ----------------------------
(***************************************************************************)
(* Parallel people counting: the orchestrator (ParallelPeopleCounter), its *)
(* pool of PeopleCounterWorker threads, the result collector and the       *)
(* ResultHandler, the per-stream counting rule of count_people and the     *)
(* aggregator's summary.                                                   *)
(*                                                                         *)
(* The state machines of this module:                                      *)
(*   SubmitSpec       add_camera / add_video calls on a fresh orchestrator  *)
(*   Spec, FairSpec   the pool: orchestrator calls interleaved with the     *)
(*                    worker threads and the collector thread               *)
(*   LifeSpec, FairLifeSpec   start_processing / stop_processing in any     *)
(*                    order, with stop_processing's join loop               *)
(*   CountSpec        the frame loop of one Task: ledger and counters       *)
(*   TrackSpec        the Identity Tracker of one Task                      *)
(*   AggSpec          the ResultHandler fed by add_result calls             *)
(*   ConcSpec         add_result and get_summary run by two threads         *)
(* Each machine leaves the variables of the others at their initial values. *)
(***************************************************************************)
EXTENDS Integers, Sequences, FiniteSets, TLC

(* ------------------------------ bounds -------------------------------- *)
\* worker_count given to the constructor
WorkerCount == 2
\* frames a stream delivers before it ends (pool machine)
MaxFrames == 2
\* frames of one Task in the counting machine
MaxCountFrames == 4
\* height of the resized frame; the midline is FrameH // 2
FrameH == 500
\* start_processing calls in the lifecycle machine
MaxStarts == 2
\* add_result calls in the aggregator machine, and the largest counter value
MaxResults == 3
MaxCount == 1
\* source strings the caller submits
Sources == {"s1", "s2"}
\* camera_id / video_id values the caller passes: in the submission machine,
\* and in the pool machine (where one value already gives both equal
\* task_ids, two cameras, and distinct ones, a camera and a video)
SubmitIds == {"a", "b"}
PoolIds == {"a"}
\* identities the tracker hands out, and the y-coordinates of their centroids:
\* the first identity moves over four rows, the second over one row on each
\* side of the midline
ObjectIDs == {0, 1}
YVals == [id \in ObjectIDs |-> IF id = 0 THEN {240, 260, 290, 300} ELSE {240, 260}]
\* update() calls on one tracker, the identities it may hand out, and the
\* boxes (startX, startY, endX, endY) a call may get: BoxA with centroid
\* (100, 100), BoxNear with centroid (130, 100), BoxFar with centroid (300, 100)
MaxUpdates == 43
MaxIds == 2
MaxEnqueued == 3
MaxItems == 4
batch_size == 2
MaxDetFrames == 2
MaxReportFrames == 21
MaxLoopFrames == 32
MaxDetections == 2
MaxTasks == 2
\* frames the capture device delivers to the reader thread before it ends
MaxCaptured == 4
BoxA == <<90, 90, 110, 110>>
BoxNear == <<120, 90, 140, 110>>
BoxFar == <<290, 90, 310, 110>>
TrackInputs == {<<>>, <<BoxA>>, <<BoxNear>>, <<BoxA, BoxFar>>}
\* task_ids in the aggregator machine
AggTasks == {"t1", "t2"}

(* ------------------------- program constants -------------------------- *)
\* a periodic record is sent when totalFrames % 10 == 0
ReportEvery == 10
\* detection runs when totalFrames % skip_frames == 0 (default of task_config)
skip_frames == 30
\* CentroidTracker(maxDisappeared=40, maxDistance=50)
maxDisappearedShort == 40 - 1

maxDisappeared == 40
maxDistance == 50
\* the confidence threshold 0.4, in percent
confidence == 40

CameraIds == {"test_cam", "cam2"}
CameraUrls == {"0", "rtsp://cam"}
\* Python's None: the shutdown sentinel on the task queue, and "no current task"
None == [type |-> "None"]
\* the workers the first start_processing call creates, and all the workers
\* MaxStarts calls create
Workers == 1..WorkerCount
\* the callback argument of CameraPool.add_camera: none, or a function
Callbacks == {None, [type |-> "function"]}
AllWorkers == 1..(WorkerCount * MaxStarts)

VARIABLES
    \* ---- ParallelPeopleCounter
    task_queue,       \* queue.Queue of Tasks and None sentinels
    result_queue,     \* queue.Queue of result dicts
    added_sources,    \* set of source strings accepted so far
    stats,            \* total_tasks, completed_tasks
    running,          \* the orchestrator's self.running
    workers,          \* self.workers: the workers created by start_processing
    collector,        \* position of the _collect_results thread
    results,          \* ResultHandler.results, in key insertion order
    \* ---- PeopleCounterWorker, one per worker id
    pc,               \* position of the worker thread
    current_task,     \* self.current_task
    totalFrames,      \* count_people's totalFrames
    vs,               \* state of the opened stream
    \* ---- history variables (not program state; used to state properties)
    submitted,        \* the <<kind, source>> pairs passed to add_camera / add_video
    dequeued,         \* per source, how often its Task left the task queue
    framesSinceStop,  \* per worker, frames of its current Task processed after
                      \* stop_processing cleared the running flag
    \* ---- count_people, for one Task
    trackableObjects, \* objectID -> TrackableObject, None when not in the dict
    totalUp,          \* the OUT counter (total_out)
    totalDown,        \* the IN counter (total_in)
    frameNo,          \* count_people's totalFrames in the counting machine
    \* ---- history variables of the counting machine
    outs,             \* per objectID, the increments of totalUp it caused
    ins,              \* per objectID, the increments of totalDown it caused
    \* ---- a second ResultHandler, fed the same records in another order
    resultsB,
    \* ---- history variable of the aggregator machine
    lastAdded,        \* per task_id, the record passed to the latest add_result
    \* ---- the caller's position inside stop_processing
    joining,          \* 0: not in its join loop; k: about to join the k-th worker
    \* ---- ResultHandler used by two threads at once
    lock,             \* self.lock: "free", or the operation holding it
    addThread,        \* the thread inside add_result: position, arguments
    sumThread,        \* the thread inside get_summary: position, locals
    \* ---- history variables of the two-thread machine
    committed,        \* the store after the last complete add_result
    snapshots,        \* the values of committed since get_summary was entered
    \* ---- the Identity Tracker of one Task
    ct,               \* nextObjectID, objects (identity -> centroid), disappeared
    \* ---- history variables of the tracker machine
    updates,          \* the number of update() calls so far
    scenarioA,        \* the calls so far are: one with BoxA alone, then empty ones
    registered,       \* the identities that have been in a result of update()
    \* ---- TaskQueue (gender_analysis), one Redis list and its clients
    redis_list,       \* the Redis list self.queue_name: JSON texts, oldest first
    qret,             \* the latest call to return, and what it returned
    qblocked,         \* a dequeue call is waiting inside blpop
    \* ---- history variables of the task queue machine
    qhist,            \* the tasks passed to enqueue so far, in call order
    qtaken,           \* the number of tasks dequeue has returned so far
    \* ---- BatchProcessor (gender_analysis)
    batch_queue,      \* self.batch_queue, oldest first
    total_items,      \* self.total_items
    total_batches,    \* self.total_batches
    lastCall,         \* the latest call made on the processor
    \* ---- history variables of the batch machine
    added,            \* the items passed to add_item so far, in call order
    handed,           \* the items passed to process_fn so far, in call order
    \* ---- CameraPool (gender_analysis)
    cam_workers,      \* self.workers: camera_id -> CameraWorker, None when absent
    cam_callbacks,    \* self.callbacks: camera_id -> callback, None when absent
    camret,           \* the latest call on the pool and what it returned
    \* ---- the detector handle self.net, shared by the workers
    net_input,        \* the blob of the latest setInput: <<worker, frame>>
    net_overlapped,   \* workers whose forward() ran while another call used the net
    dpc,              \* per worker, its position in the detect branch
    dframe,           \* per worker, the number of its current detect frame
    detections,       \* per worker, the blob its detections were computed from
    \* ---- the detect and track phases of one Task's frame loop
    frameIndex,       \* count_people's totalFrames: the index of the next frame
    trackers,         \* the short-lived trackers: the box each was started on
    updateRects,      \* the rects of the latest ct.update(rects) call
    frameStatus,      \* the status of the latest frame
    \* ---- history variables of the frame machine
    forwardCalls,     \* the number of detector calls so far
    frameDetections,  \* what the detector returned in the latest frame
    \* ---- one worker processing Task after Task
    counting,         \* the worker is inside count_people
    \* ---- history variables of the task machine
    taskNo,           \* the number of count_people calls so far
    taskIn,           \* per call, the IN crossings counted during it
    taskOut,          \* per call, the OUT crossings counted during it
    reported,         \* per call, <<total_in, total_out>> of its final record
    \* ---- export_to_json, run by one thread while the collector adds results
    export,           \* position, the summary, the copied keys, the data written
    \* ---- the thread that calls add_camera / add_video, and main()
    adder,            \* its position inside add_camera / add_video, the source
    mainpc,           \* main's position: adding, in the wait loop, past it
    \* ---- ThreadingClass: the reader thread and one consumer
    frame_q,          \* self.q: the frames waiting, oldest first
    reader_running,   \* self.running
    rpc,              \* the reader's position in _reader
    rframe,           \* the frame the reader holds (frames are numbered 1, 2, ...)
    captured,         \* frames the capture device has delivered so far
    \* ---- history variables of the reader machine
    lastRead,         \* what the latest read() returned
    frames_read       \* the frames read() has returned, in call order

orchVars == <<task_queue, added_sources, stats>>

poolVars == <<task_queue, result_queue, added_sources, stats, running, workers,
              collector, results, pc, current_task, totalFrames, vs,
              dequeued, framesSinceStop>>

countVars == <<trackableObjects, totalUp, totalDown, frameNo, outs, ins>>

aggVars == <<resultsB, lastAdded>>

stopVars == <<joining>>

concVars == <<lock, addThread, sumThread, committed, snapshots>>

trackVars == <<ct, updates, scenarioA, registered>>

queueVars == <<redis_list, qret, qblocked, qhist, qtaken>>

\* the state of the gender_analysis utilities
batchVars == <<batch_queue, total_items, total_batches, lastCall, added, handed>>

camVars == <<cam_workers, cam_callbacks, camret>>

serviceVars == <<queueVars, batchVars, camVars>>

detVars == <<net_input, net_overlapped, dpc, dframe, detections>>

\* the state of count_people's detect and track phases
loopVars == <<frameIndex, trackers, updateRects, frameStatus, forwardCalls, frameDetections>>

frameVars == <<detVars, loopVars>>

taskVars == <<counting, taskNo, taskIn, taskOut, reported>>

\* the state of the machines around one worker and the main program
exportVars == <<export>>

mainVars == <<adder, mainpc>>

readerVars == <<frame_q, reader_running, rpc, rframe, captured, lastRead,
                frames_read>>

appVars == <<taskVars, exportVars, mainVars, readerVars>>

vars == <<poolVars, submitted, countVars, aggVars, stopVars, concVars, trackVars,
          serviceVars, frameVars, appVars>>

(* ------------------------------ helpers -------------------------------- *)
Last(s) == s[Len(s)]

\* the task dict built by add_camera (type "camera") and add_video (type "video")
Task(type, id, source) ==
    [task_id |-> <<type, id>>, type |-> type, id |-> id, source |-> source,
     status |-> "pending"]

(* ------------------------- ResultHandler ------------------------------- *)
\* index of task_id's entry in the store, 0 when it has none
KeyIndex(store, task_id) ==
    IF \E i \in 1..Len(store) : store[i].task_id = task_id
    THEN CHOOSE i \in 1..Len(store) : store[i].task_id = task_id
    ELSE 0

\* ResultHandler.add_result: create the task's list if needed, append the result
add_result(store, task_id, result) ==
    LET i == KeyIndex(store, task_id) IN
    IF i = 0
    THEN Append(store, [task_id |-> task_id, records |-> <<result>>])
    ELSE [store EXCEPT ![i].records = Append(@, result)]

(* --------------------------- orchestrator ------------------------------ *)
\* the duplicate test at the head of add_camera and add_video
IsDuplicateNever(source) == FALSE

IsDuplicate(source) == source \in added_sources

\* the tail of add_camera / add_video: enqueue, mark the source, count the task
EnqueueUnmarked(task) ==
    /\ task_queue' = Append(task_queue, task)
    /\ added_sources' = added_sources
    /\ stats' = [stats EXCEPT !.total_tasks = @ + 1]

Enqueue(task) ==
    /\ task_queue' = Append(task_queue, task)
    /\ added_sources' = added_sources \cup {task.source}
    /\ stats' = [stats EXCEPT !.total_tasks = @ + 1]

add_camera(source, camera_id) ==
    /\ IF IsDuplicate(source)
       THEN UNCHANGED <<task_queue, added_sources, stats>>
       ELSE Enqueue(Task("camera", camera_id, source))
    /\ UNCHANGED <<result_queue, running, workers, collector, results, pc,
                   current_task, totalFrames, vs, dequeued,
                   framesSinceStop>>

add_video(video_path, video_id) ==
    /\ IF IsDuplicate(video_path)
       THEN UNCHANGED <<task_queue, added_sources, stats>>
       ELSE Enqueue(Task("video", video_id, video_path))
    /\ UNCHANGED <<result_queue, running, workers, collector, results, pc,
                   current_task, totalFrames, vs, dequeued,
                   framesSinceStop>>

\* add_camera / add_video statement by statement, as the other threads see
\* them: the caller is outside a call, or has put the Task, or has also marked
\* the source
AdderIdle == [pc |-> "idle", source |-> ""]

\* "if self._is_source_duplicate(source): return", then
\* "self.task_queue.put(task)"
add_task_put(task) ==
    /\ adder.pc = "idle"
    /\ IF IsDuplicate(task.source)
       THEN UNCHANGED <<task_queue, adder>>
       ELSE /\ task_queue' = Append(task_queue, task)
            /\ adder' = [pc |-> "mark", source |-> task.source]
    /\ UNCHANGED <<result_queue, added_sources, stats, running, workers,
                   collector, results, pc, current_task, totalFrames, vs,
                   dequeued, framesSinceStop>>

\* "self.added_sources.add(source)"
add_task_mark ==
    /\ adder.pc = "mark"
    /\ added_sources' = added_sources \cup {adder.source}
    /\ adder' = [adder EXCEPT !.pc = "count"]
    /\ UNCHANGED <<task_queue, result_queue, stats, running, workers,
                   collector, results, pc, current_task, totalFrames, vs,
                   dequeued, framesSinceStop>>

\* "self.stats['total_tasks'] += 1", and the call returns
add_task_count ==
    /\ adder.pc = "count"
    /\ stats' = [stats EXCEPT !.total_tasks = @ + 1]
    /\ adder' = AdderIdle
    /\ UNCHANGED <<task_queue, result_queue, added_sources, running, workers,
                   collector, results, pc, current_task, totalFrames, vs,
                   dequeued, framesSinceStop>>

\* the workers a start_processing call creates and appends to self.workers
NewWorkers == (Cardinality(workers) + 1)..(Cardinality(workers) + WorkerCount)

\* start_processing: set running, start the collector, create and start
\* worker_count workers (at most MaxStarts calls are modelled)
start_processing ==
    /\ NewWorkers \subseteq AllWorkers
    /\ running' = TRUE
    /\ collector' = "check"
    /\ workers' = workers \cup NewWorkers
    /\ pc' = [w \in AllWorkers |-> IF w \in NewWorkers THEN "get" ELSE pc[w]]
    /\ UNCHANGED <<task_queue, result_queue, added_sources, stats, results,
                   current_task, totalFrames, vs, dequeued,
                   framesSinceStop>>

\* the sentinels stop_processing puts: one None per element of self.workers
SentinelsShort(n) == [i \in 1..(n - 1) |-> None]

Sentinels(n) == [i \in 1..n |-> None]

\* stop_processing up to its join loop: clear running, enqueue the sentinels
stop_processing ==
    /\ running' = FALSE
    /\ task_queue' = task_queue \o Sentinels(Cardinality(workers))
    /\ UNCHANGED <<result_queue, added_sources, stats, workers, collector,
                   results, pc, current_task, totalFrames, vs,
                   dequeued, framesSinceStop>>

\* worker.join(timeout=5) returns when the thread has ended or the timeout
\* has passed, whichever comes first
JoinReturnsWhenEnded(w) == pc[w] = "done"

JoinReturns(w) == pc[w] = "done" \/ pc[w] # "done"

\* stop_processing's join loop: "for worker in self.workers: worker.join(5)",
\* one iteration; after the last one stop_processing returns
join_worker ==
    /\ joining > 0
    /\ JoinReturns(joining)
    /\ joining' = IF joining < Cardinality(workers) THEN joining + 1 ELSE 0
    /\ UNCHANGED poolVars

(* --------------------------- ThreadingClass ---------------------------- *)
\* a frame as a Python value
Frame(n) == [type |-> "frame", n |-> n]

\* _reader: "if not self.q.empty()"
QueueSeenEmptyAlways(q) == FALSE

QueueNotEmpty(q) == q # <<>>

\* _reader: the loop test "while self.running"
reader_loop ==
    /\ rpc = "loop"
    /\ rpc' = IF reader_running THEN "capture" ELSE "ended"
    /\ UNCHANGED <<frame_q, reader_running, rframe, captured, lastRead,
                   frames_read>>

\* _reader: "ret, frame = self.cap.read()" delivers the next frame
reader_capture ==
    /\ rpc = "capture"
    /\ captured < MaxCaptured
    /\ captured' = captured + 1
    /\ rframe' = captured + 1
    /\ rpc' = "test"
    /\ UNCHANGED <<frame_q, reader_running, lastRead, frames_read>>

\* _reader: cap.read() fails, "if not ret: break"
reader_capture_fails ==
    /\ rpc = "capture"
    /\ rpc' = "ended"
    /\ UNCHANGED <<frame_q, reader_running, rframe, captured, lastRead,
                   frames_read>>

\* _reader: "if not self.q.empty()"
reader_test ==
    /\ rpc = "test"
    /\ rpc' = IF QueueNotEmpty(frame_q) THEN "drop" ELSE "put"
    /\ UNCHANGED <<frame_q, reader_running, rframe, captured, lastRead,
                   frames_read>>

\* _reader: "try: self.q.get_nowait() except queue.Empty: pass"
reader_drop ==
    /\ rpc = "drop"
    /\ frame_q' = IF frame_q = <<>> THEN frame_q ELSE Tail(frame_q)
    /\ rpc' = "put"
    /\ UNCHANGED <<reader_running, rframe, captured, lastRead, frames_read>>

\* _reader: "if frame is not None: self.q.put(frame)"
reader_put ==
    /\ rpc = "put"
    /\ frame_q' = Append(frame_q, rframe)
    /\ rpc' = "loop"
    /\ UNCHANGED <<reader_running, rframe, captured, lastRead, frames_read>>

\* read(): "return self.q.get(timeout=1)", None when the queue stays empty
\* (the consumer reads until it releases the stream)
ThreadingClass_read ==
    /\ reader_running
    /\ IF frame_q = <<>>
       THEN /\ lastRead' = None
            /\ UNCHANGED <<frame_q, frames_read>>
       ELSE /\ lastRead' = Frame(Head(frame_q))
            /\ frames_read' = Append(frames_read, Head(frame_q))
            /\ frame_q' = Tail(frame_q)
    /\ UNCHANGED <<reader_running, rpc, rframe, captured>>

\* release(): "self.running = False"
ThreadingClass_release ==
    /\ reader_running
    /\ reader_running' = FALSE
    /\ UNCHANGED <<frame_q, rpc, rframe, captured, lastRead, frames_read>>

(* -------------------------------- main --------------------------------- *)
\* main: "counter.start_processing(config=processing_config)"; by then main
\* has submitted at least one source (the default webcam when none is given)
main_start ==
    /\ mainpc = "add"
    /\ task_queue # <<>>
    /\ start_processing
    /\ mainpc' = "wait"

\* the test of main's loop: "while counter.task_queue.qsize() > 0 or
\* len(counter.workers) > 0"
WaitLoopTest == Len(task_queue) > 0 \/ Cardinality(workers) > 0

\* one evaluation of the loop test: sleep and test again, or leave the loop
\* for the export and the final summary
main_wait ==
    /\ mainpc = "wait"
    /\ mainpc' = IF WaitLoopTest THEN "wait" ELSE "export"
    /\ UNCHANGED poolVars

(* ----------------------------- collector ------------------------------- *)
\* _collect_results: the loop test "while self.running"
collect_check ==
    /\ collector = "check"
    /\ collector' = IF running THEN "get" ELSE "exited"
    /\ UNCHANGED <<task_queue, result_queue, added_sources, stats, running,
                   workers, results, pc, current_task, totalFrames, vs, dequeued, framesSinceStop>>

\* _collect_results: result_queue.get returned a result
collect_get ==
    /\ collector = "get"
    /\ result_queue # <<>>
    /\ LET result == Head(result_queue) IN
        /\ result_queue' = Tail(result_queue)
        /\ results' = add_result(results, result.task_id, result)
        /\ stats' = IF result.status = "completed"
                    THEN [stats EXCEPT !.completed_tasks = @ + 1]
                    ELSE stats
    /\ collector' = "check"
    /\ UNCHANGED <<task_queue, added_sources, running, workers, pc,
                   current_task, totalFrames, vs, dequeued,
                   framesSinceStop>>

\* _collect_results: result_queue.get timed out (queue.Empty)
collect_empty ==
    /\ collector = "get"
    /\ result_queue = <<>>
    /\ collector' = "check"
    /\ UNCHANGED <<task_queue, result_queue, added_sources, stats, running,
                   workers, results, pc, current_task, totalFrames, vs, dequeued, framesSinceStop>>

(* ------------------------ PeopleCounterWorker -------------------------- *)
\* PeopleCounterWorker.send_result: put on the (unbounded) result queue
send_result(queue, result) == Append(queue, result)

\* the dict count_people sends every ReportEvery frames
PeriodicRecord(w, task, status, frames) ==
    [worker_id |-> w, task_id |-> task.task_id, status |-> status,
     frame_count |-> frames]

\* the dict count_people's finally block sends
FinalStatus == "completed"

FinalRecord(w, task, frames) ==
    [worker_id |-> w, task_id |-> task.task_id, status |-> FinalStatus,
     frame_count |-> frames]

\* the dict run()'s except block sends
ErrorRecord(w, task) ==
    [worker_id |-> w, task_id |-> task.task_id, status |-> "error",
     error |-> "exception"]

\* task_queue.get: the queue without its head
DequeuePeek(queue) == queue

Dequeue(queue) == Tail(queue)

\* run(): task_queue.get returned a Task
run_get_task(w) ==
    /\ pc[w] = "get"
    /\ task_queue # <<>>
    /\ Head(task_queue) # None
    /\ LET task == Head(task_queue) IN
        /\ task_queue' = Dequeue(task_queue)
        /\ current_task' = [current_task EXCEPT ![w] = task]
        /\ dequeued' = [dequeued EXCEPT ![task.source] = @ + 1]
    /\ pc' = [pc EXCEPT ![w] = "open"]
    /\ totalFrames' = [totalFrames EXCEPT ![w] = 0]
    /\ UNCHANGED <<result_queue, added_sources, stats, running, workers,
                   collector, results, vs, framesSinceStop>>

\* where run() goes after dequeuing the shutdown signal: break
AfterSentinel == "done"

\* run(): task_queue.get returned None, the shutdown signal
run_get_sentinel(w) ==
    /\ pc[w] = "get"
    /\ task_queue # <<>>
    /\ Head(task_queue) = None
    /\ task_queue' = Dequeue(task_queue)
    /\ pc' = [pc EXCEPT ![w] = AfterSentinel]
    /\ UNCHANGED <<result_queue, added_sources, stats, running, workers,
                   collector, results, current_task, totalFrames, vs, dequeued, framesSinceStop>>

\* run(): the task was processed without an exception reaching run()
task_returned(w) ==
    /\ current_task' = [current_task EXCEPT ![w] = None]
    /\ pc' = [pc EXCEPT ![w] = "get"]
    /\ vs' = [vs EXCEPT ![w] = "none"]

\* process_camera / process_video: the stream is opened and count_people entered
open_ok(w) ==
    /\ pc[w] = "open"
    /\ vs' = [vs EXCEPT ![w] = "open"]
    /\ pc' = [pc EXCEPT ![w] = "loop"]
    /\ UNCHANGED <<task_queue, result_queue, added_sources, stats, running,
                   workers, collector, results, current_task, totalFrames, dequeued, framesSinceStop>>

\* process_video: cv2.VideoCapture on a missing or unreadable file raises
\* nothing; the capture is returned unopened and every read gives ret = False
open_unreadable(w) ==
    /\ pc[w] = "open"
    /\ current_task[w].type = "video"
    /\ vs' = [vs EXCEPT ![w] = "unopened"]
    /\ pc' = [pc EXCEPT ![w] = "loop"]
    /\ UNCHANGED <<task_queue, result_queue, added_sources, stats, running,
                   workers, collector, results, current_task, totalFrames, dequeued, framesSinceStop>>

\* process_camera / process_video: opening the stream raised; the except
\* block logs and returns, and run() goes on as after a processed task
open_raises(w) ==
    /\ pc[w] = "open"
    /\ task_returned(w)
    /\ UNCHANGED <<task_queue, result_queue, added_sources, stats, running,
                   workers, collector, results, totalFrames,
                   dequeued, framesSinceStop>>

\* status of the frame with index n: detect when n % skip_frames == 0;
\* FrameStatusOneBased counts the first frame as 1
FrameStatusOneBased(n) == IF (n + 1) % skip_frames = 0 THEN "Detecting" ELSE "Tracking"
FrameStatus(n) == IF n % skip_frames = 0 THEN "Detecting" ELSE "Tracking"

\* count_people's loop test: "while True", no flag is read
LoopContinues(w) == TRUE

\* the test before the periodic send, on totalFrames after its increment;
\* ReportDueZeroBased tests the frame's index instead
ReportDueZeroBased(n) == (n - 1) % ReportEvery = 0
ReportDue(n) == n % ReportEvery = 0

\* count_people: one iteration of the frame loop with a frame read and
\* processed, for a stream of at most bound frames
frame_step(w, bound) ==
    /\ pc[w] = "loop"
    /\ LoopContinues(w)
    /\ vs[w] = "open"
    /\ totalFrames[w] < bound
    /\ totalFrames' = [totalFrames EXCEPT ![w] = @ + 1]
    /\ result_queue' =
         IF ReportDue(totalFrames'[w])
         THEN send_result(result_queue,
                PeriodicRecord(w, current_task[w], FrameStatus(totalFrames[w]),
                               totalFrames'[w]))
         ELSE result_queue
    /\ framesSinceStop' =
         IF ~running /\ workers # {}
         THEN [framesSinceStop EXCEPT ![w] = @ + 1]
         ELSE framesSinceStop
    /\ UNCHANGED <<task_queue, added_sources, stats, running, workers,
                   collector, results, pc, current_task, vs,
                   dequeued>>

frame_ok(w) == frame_step(w, MaxFrames)

\* the camera of worker w's Task stops delivering frames for good (the
\* device is unplugged, the network stream ends)
camera_stops(w) ==
    /\ pc[w] = "loop"
    /\ current_task[w].type = "camera"
    /\ vs[w] = "open"
    /\ vs' = [vs EXCEPT ![w] = "stalled"]
    /\ UNCHANGED <<task_queue, result_queue, added_sources, stats, running,
                   workers, collector, results, pc, current_task, totalFrames,
                   dequeued, framesSinceStop>>

\* count_people: the camera's read gave no frame; "continue", the loop reads
\* again
frame_none(w) ==
    /\ pc[w] = "loop"
    /\ current_task[w].type = "camera"
    /\ vs[w] = "stalled"
    /\ UNCHANGED poolVars

\* count_people returns: its locals (totalFrames among them) are gone
leave_loop(w) ==
    /\ pc' = [pc EXCEPT ![w] = "cleanup"]
    /\ totalFrames' = [totalFrames EXCEPT ![w] = 0]
    /\ framesSinceStop' = [framesSinceStop EXCEPT ![w] = 0]

\* count_people: the video's read gave ret = False; break, then the finally block
frame_end(w) ==
    /\ pc[w] = "loop"
    /\ current_task[w].type = "video"
    /\ result_queue' = send_result(result_queue,
                         FinalRecord(w, current_task[w], totalFrames[w]))
    /\ leave_loop(w)
    /\ UNCHANGED <<task_queue, added_sources, stats, running, workers,
                   collector, results, current_task, vs, dequeued>>

\* count_people: reading or processing a frame raised; the except block logs,
\* then the finally block sends the final record
frame_raises(w) ==
    /\ pc[w] = "loop"
    /\ vs[w] = "open"
    /\ result_queue' = send_result(result_queue,
                         FinalRecord(w, current_task[w], totalFrames[w]))
    /\ leave_loop(w)
    /\ UNCHANGED <<task_queue, added_sources, stats, running, workers,
                   collector, results, current_task, vs, dequeued>>

\* process_camera / process_video: the stream is released, the task returns
cleanup_ok(w) ==
    /\ pc[w] = "cleanup"
    /\ task_returned(w)
    /\ UNCHANGED <<task_queue, result_queue, added_sources, stats, running,
                   workers, collector, results, totalFrames,
                   dequeued, framesSinceStop>>

\* where run() goes after its except block: the except is inside the while
\* loop, so the next iteration calls task_queue.get again
AfterExceptionDies == "done"

AfterException == "get"

\* process_video: vs.release() raised (it is outside any try); run()'s except
\* block sends an error record and the loop goes on, current_task still set
cleanup_raises(w) ==
    /\ pc[w] = "cleanup"
    /\ current_task[w].type = "video"
    /\ result_queue' = send_result(result_queue, ErrorRecord(w, current_task[w]))
    /\ pc' = [pc EXCEPT ![w] = AfterException]
    /\ vs' = [vs EXCEPT ![w] = "none"]
    /\ UNCHANGED <<task_queue, added_sources, stats, running, workers,
                   collector, results, current_task, totalFrames,
                   dequeued, framesSinceStop>>

WorkerStep(w) ==
    \/ run_get_task(w)
    \/ run_get_sentinel(w)
    \/ open_ok(w)
    \/ open_unreadable(w)
    \/ open_raises(w)
    \/ frame_ok(w)
    \/ frame_end(w)
    \/ frame_raises(w)
    \/ cleanup_ok(w)
    \/ cleanup_raises(w)

(* ----------------------------- count_people --------------------------- *)
\* TrackableObject.__init__; only centroid[1], the y-coordinate, is read by
\* the counting rule, so a centroid is modelled by its y
TrackableObject(objectID, cy) ==
    [objectID |-> objectID, centroids |-> <<cy>>, counted |-> FALSE]

RECURSIVE SumSeq(_)
SumSeq(q) == IF q = <<>> THEN 0 ELSE Head(q) + SumSeq(Tail(q))

\* direction = centroid[1] - np.mean(y), scaled by len(y) > 0 to stay in the
\* integers: the sign is that of direction
Direction(cy, y) == cy * Len(y) - SumSeq(y)

\* CASE 1 of the rule: moving up and above the centre line
MovingUpAboveLineAnywhere(direction, cy, H) == direction < 0

MovingUpAboveLine(direction, cy, H) == direction < 0 /\ cy < H \div 2

\* CASE 2 of the rule: moving down and below the centre line
MovingDownBelowLine(direction, cy, H) == direction > 0 /\ cy > H \div 2

\* to.counted = True
MarkCountedForgotten(to) == to

MarkCounted(to) == [to EXCEPT !.counted = TRUE]

\* the body of "for (objectID, centroid) in objects.items()" for one object:
\* the object stored back in trackableObjects and the increments of
\* totalUp / totalDown
count_object(to, objectID, cy, H) ==
    IF to = None
    THEN [to |-> TrackableObject(objectID, cy), up |-> 0, down |-> 0]
    ELSE LET direction == Direction(cy, to.centroids)
             appended == [to EXCEPT !.centroids = Append(@, cy)]
         IN IF ~to.counted /\ MovingUpAboveLine(direction, cy, H)
            THEN [to |-> MarkCounted(appended), up |-> 1, down |-> 0]
            ELSE IF ~to.counted /\ MovingDownBelowLine(direction, cy, H)
            THEN [to |-> MarkCounted(appended), up |-> 0, down |-> 1]
            ELSE [to |-> appended, up |-> 0, down |-> 0]

RECURSIVE SumOver(_, _)
SumOver(f, S) ==
    IF S = {} THEN 0
    ELSE LET x == CHOOSE y \in S : TRUE IN f[x] + SumOver(f, S \ {x})

\* one iteration of count_people's frame loop; objects is what ct.update
\* returned for the frame: a centroid for each identity it reports
process_frame(objects) ==
    /\ frameNo < MaxCountFrames
    /\ LET seen == DOMAIN objects
           step == [id \in seen |->
                      count_object(trackableObjects[id], id, objects[id], FrameH)]
           ups == [id \in seen |-> step[id].up]
           downs == [id \in seen |-> step[id].down]
       IN /\ trackableObjects' =
                [id \in ObjectIDs |->
                    IF id \in seen THEN step[id].to ELSE trackableObjects[id]]
          /\ totalUp' = totalUp + SumOver(ups, seen)
          /\ totalDown' = totalDown + SumOver(downs, seen)
          /\ outs' = [id \in ObjectIDs |->
                        IF id \in seen THEN outs[id] + ups[id] ELSE outs[id]]
          /\ ins' = [id \in ObjectIDs |->
                       IF id \in seen THEN ins[id] + downs[id] ELSE ins[id]]
    /\ frameNo' = frameNo + 1

(* ------------------------ ResultHandler.get_summary -------------------- *)
\* dict.get(field, default)
Get(r, field, default) == IF field \in DOMAIN r THEN r[field] ELSE default

\* the records of an entry that get_summary reads: the latest one
SummaryRecordsAll(records) == records

SummaryRecords(records) == <<Last(records)>>

\* get_summary's loop over self.results.items(), entries i..Len(store), with
\* the running totals acc
RECURSIVE SummaryLoop(_, _, _)
SummaryLoop(store, i, acc) ==
    IF i > Len(store) THEN acc
    ELSE LET entry == store[i] IN
         IF entry.records = <<>>
         THEN SummaryLoop(store, i + 1, acc)
         ELSE LET read == SummaryRecords(entry.records)
                  task_in == SumSeq([k \in 1..Len(read) |-> Get(read[k], "total_in", 0)])
                  task_out == SumSeq([k \in 1..Len(read) |-> Get(read[k], "total_out", 0)])
                  latest == Last(entry.records)
              IN SummaryLoop(store, i + 1,
                   [tasks |-> Append(acc.tasks,
                                [task_id |-> entry.task_id,
                                 total_in |-> task_in,
                                 total_out |-> task_out,
                                 status |-> Get(latest, "status", "unknown"),
                                 total_updates |-> Len(entry.records)]),
                    total_in_all |-> acc.total_in_all + task_in,
                    total_out_all |-> acc.total_out_all + task_out])

get_summary(store) ==
    LET done == SummaryLoop(store, 1,
                  [tasks |-> <<>>, total_in_all |-> 0, total_out_all |-> 0])
    IN [total_tasks |-> Len(store),
        tasks |-> done.tasks,
        overall |-> [total_in |-> done.total_in_all,
                     total_out |-> done.total_out_all,
                     net_count |-> done.total_in_all - done.total_out_all]]

\* the result dicts handed to add_result: periodic records with counters, the
\* final record, which has the key elapsed_time in addition, and run()'s error
\* record, which has no counters (the timestamp add_result sets is a key of
\* every record and is left out)
AggRecords ==
    [status : {"Tracking"}, total_in : 0..MaxCount, total_out : 0..MaxCount]
        \cup [status : {"completed"}, total_in : 0..MaxCount,
              total_out : 0..MaxCount, elapsed_time : {0}]
        \cup {[status |-> "error", error |-> "exception"]}

RecordsOf(store, task_id) ==
    LET i == KeyIndex(store, task_id) IN
    IF i = 0 THEN <<>> ELSE store[i].records

RecordCount(store) ==
    SumSeq([i \in 1..Len(store) |-> Len(store[i].records)])

\* a caller's add_result(task_id, result) on the handler
agg_add_result(task_id, result) ==
    /\ RecordCount(results) < MaxResults
    /\ results' = add_result(results, task_id, result)
    /\ lastAdded' = [lastAdded EXCEPT ![task_id] = result]
    /\ UNCHANGED resultsB

\* the same records arriving at a second handler: the next record of task_id,
\* in the task's own order, whatever the other tasks' records do
agg_replay_result(task_id) ==
    /\ Len(RecordsOf(resultsB, task_id)) < Len(RecordsOf(results, task_id))
    /\ resultsB' =
         add_result(resultsB, task_id,
           RecordsOf(results, task_id)[Len(RecordsOf(resultsB, task_id)) + 1])
    /\ UNCHANGED <<results, lastAdded>>

\* csv.DictWriter.writerows with the default extrasaction='raise': a row with a
\* key that is not a fieldname raises ValueError, the rows before it are written
FirstBadRow(records, fieldnames) ==
    LET bad == {i \in 1..Len(records) : ~(DOMAIN records[i] \subseteq fieldnames)}
    IN IF bad = {} THEN 0 ELSE CHOOSE i \in bad : \A j \in bad : i <= j

\* ResultHandler.export_to_csv: the fieldnames are the keys of the first record
export_to_csv(store, task_id) ==
    IF KeyIndex(store, task_id) = 0
    THEN [outcome |-> "no results", header |-> {}, rows |-> 0]
    ELSE LET records == RecordsOf(store, task_id) IN
         IF records = <<>>
         THEN [outcome |-> "empty file", header |-> {}, rows |-> 0]
         ELSE LET fieldnames == DOMAIN records[1]
                  bad == FirstBadRow(records, fieldnames)
              IN IF bad = 0
                 THEN [outcome |-> "written", header |-> fieldnames,
                       rows |-> Len(records)]
                 ELSE [outcome |-> "ValueError", header |-> fieldnames,
                       rows |-> bad - 1]

(* --------------------------- Identity Tracker --------------------------- *)
\* step 1: the centroid of a box
Centroid(box) == <<(box[1] + box[3]) \div 2, (box[2] + box[4]) \div 2>>

\* the square of the Euclidean distance (integers; compared with maxDistance^2)
Dist2(a, b) == (a[1] - b[1]) * (a[1] - b[1]) + (a[2] - b[2]) * (a[2] - b[2])

Live(t) == DOMAIN t.objects

\* a new identity from the monotonically increasing counter
registerLowestFree(t, centroid) ==
    LET id == CHOOSE x \in 0..t.nextObjectID :
                  x \notin DOMAIN t.objects
                  /\ \A y \in 0..t.nextObjectID : y \notin DOMAIN t.objects => x <= y
    IN [nextObjectID |-> IF id = t.nextObjectID THEN id + 1 ELSE t.nextObjectID,
        objects |-> [k \in DOMAIN t.objects \cup {id} |->
                       IF k = id THEN centroid ELSE t.objects[k]],
        disappeared |-> [k \in DOMAIN t.objects \cup {id} |->
                       IF k = id THEN 0 ELSE t.disappeared[k]]]

register(t, centroid) ==
    [nextObjectID |-> t.nextObjectID + 1,
     objects |-> [id \in Live(t) \cup {t.nextObjectID} |->
                    IF id = t.nextObjectID THEN centroid ELSE t.objects[id]],
     disappeared |-> [id \in Live(t) \cup {t.nextObjectID} |->
                    IF id = t.nextObjectID THEN 0 ELSE t.disappeared[id]]]

deregister(t, objectID) ==
    [t EXCEPT !.objects = [id \in Live(t) \ {objectID} |-> t.objects[id]],
              !.disappeared = [id \in Live(t) \ {objectID} |-> t.disappeared[id]]]

\* an identity without a matching box: its disappearance counter is
\* incremented, and it is deregistered when the counter exceeds maxDisappeared
Miss(t, objectID) ==
    LET n == t.disappeared[objectID] + 1 IN
    IF n > maxDisappeared
    THEN deregister(t, objectID)
    ELSE [t EXCEPT !.disappeared[objectID] = n]

RECURSIVE MissAll(_, _)
MissAll(t, ids) ==
    IF ids = {} THEN t
    ELSE LET id == CHOOSE x \in ids : \A y \in ids : x <= y
         IN MissAll(Miss(t, id), ids \ {id})

\* register the centroids with the given indices, in input order
RegisterFirst(t, centroids, cols) ==
    IF cols = {} THEN t
    ELSE register(t, centroids[CHOOSE x \in cols : \A y \in cols : x <= y])

RECURSIVE RegisterAll(_, _, _)
RegisterAll(t, centroids, cols) ==
    IF cols = {} THEN t
    ELSE LET c == CHOOSE x \in cols : \A y \in cols : x <= y
         IN RegisterAll(register(t, centroids[c]), centroids, cols \ {c})

\* the smallest distance of a live identity to an input centroid, and the
\* first input centroid at that distance
RowMin(t, centroids, id) ==
    LET ds == {Dist2(t.objects[id], centroids[c]) : c \in 1..Len(centroids)}
    IN CHOOSE d \in ds : \A e \in ds : d <= e

RowCol(t, centroids, id) ==
    LET hits == {c \in 1..Len(centroids) :
                   Dist2(t.objects[id], centroids[c]) = RowMin(t, centroids, id)}
    IN CHOOSE c \in hits : \A e \in hits : c <= e

\* the rows not yet visited, in the order of their minimum: the first row
\* with the smallest minimum
NextRow(t, centroids, rows) ==
    CHOOSE r \in rows :
        \A q \in rows :
            \/ RowMin(t, centroids, r) < RowMin(t, centroids, q)
            \/ RowMin(t, centroids, r) = RowMin(t, centroids, q) /\ r <= q

\* step 4: the greedy matching; the result maps each matched identity to the
\* index of its input centroid
RECURSIVE Match(_, _, _, _)
Match(t, centroids, rows, matched) ==
    IF rows = {} THEN matched
    ELSE LET r == NextRow(t, centroids, rows)
             c == RowCol(t, centroids, r)
             usedCols == {matched[id] : id \in DOMAIN matched}
             ok == /\ c \notin usedCols
                   /\ RowMin(t, centroids, r) <= maxDistance * maxDistance
         IN Match(t, centroids, rows \ {r},
                  IF ok
                  THEN [id \in DOMAIN matched \cup {r} |->
                          IF id = r THEN c ELSE matched[id]]
                  ELSE matched)

\* CentroidTracker.update
update(t, rects) ==
    LET centroids == [i \in 1..Len(rects) |-> Centroid(rects[i])] IN
    IF Live(t) = {}
    THEN RegisterAll(t, centroids, 1..Len(rects))
    ELSE IF Len(rects) = 0
    THEN MissAll(t, Live(t))
    ELSE LET matched == Match(t, centroids, Live(t), <<>>)
             moved == [t EXCEPT
                         !.objects = [id \in Live(t) |->
                                        IF id \in DOMAIN matched
                                        THEN centroids[matched[id]]
                                        ELSE t.objects[id]],
                         !.disappeared = [id \in Live(t) |->
                                        IF id \in DOMAIN matched
                                        THEN 0
                                        ELSE t.disappeared[id]]]
             missed == MissAll(moved, Live(t) \ DOMAIN matched)
             usedCols == {matched[id] : id \in DOMAIN matched}
         IN RegisterAll(missed, centroids, (1..Len(rects)) \ usedCols)

\* one ct.update(rects) call of the worker
ct_update(rects) ==
    /\ updates < MaxUpdates
    /\ update(ct, rects).nextObjectID <= MaxIds
    /\ ct' = update(ct, rects)
    /\ updates' = updates + 1
    /\ scenarioA' = IF updates = 0 THEN rects = <<BoxA>>
                    ELSE scenarioA /\ rects = <<>>
    /\ registered' = registered \cup DOMAIN ct'.objects

(* ------------- ResultHandler: add_result and get_summary, stepwise ------ *)
\* the records the collector hands to add_result in the two-thread machine
ConcRecords == [status : {"Tracking"}, total_in : 0..MaxCount, total_out : {0}]

AddIdle == [pc |-> "idle", task_id |-> "", result |-> None]

SumIdle == [pc |-> "idle", total_tasks |-> 0, size |-> 0, i |-> 0, latest |-> None,
            tasks |-> <<>>, total_in_all |-> 0, total_out_all |-> 0]

\* get_summary is in progress: between its first statement and its return
Summing == sumThread.pc \in {"iter", "entry"}

\* add_result: "with self.lock" is entered
add_acquire(task_id, result) ==
    /\ addThread.pc = "idle"
    /\ lock = "free"
    /\ RecordCount(results) < MaxResults
    /\ lock' = "add_result"
    /\ addThread' = [pc |-> "create", task_id |-> task_id, result |-> result]
    /\ UNCHANGED <<results, sumThread, committed, snapshots>>

\* add_result: "if task_id not in self.results: self.results[task_id] = []"
add_create ==
    /\ addThread.pc = "create"
    /\ results' = IF KeyIndex(results, addThread.task_id) = 0
                  THEN Append(results, [task_id |-> addThread.task_id,
                                        records |-> <<>>])
                  ELSE results
    /\ addThread' = [addThread EXCEPT !.pc = "append"]
    /\ UNCHANGED <<lock, sumThread, committed, snapshots>>

\* add_result: "self.results[task_id].append(result)"
add_append ==
    /\ addThread.pc = "append"
    /\ results' = add_result(results, addThread.task_id, addThread.result)
    /\ addThread' = [addThread EXCEPT !.pc = "release"]
    /\ UNCHANGED <<lock, sumThread, committed, snapshots>>

\* add_result: the with block is left, the lock released
add_release ==
    /\ addThread.pc = "release"
    /\ lock' = "free"
    /\ addThread' = AddIdle
    /\ committed' = results
    /\ snapshots' = IF Summing THEN snapshots \cup {results} ELSE snapshots
    /\ UNCHANGED <<results, sumThread>>

\* get_summary (it takes no lock): "summary = {'total_tasks':
\* len(self.results), 'tasks': {}}" and the iterator over self.results.items(),
\* which notes the dict's size
sum_begin ==
    /\ sumThread.pc = "idle"
    /\ sumThread' = [SumIdle EXCEPT !.pc = "iter",
                                    !.total_tasks = Len(results),
                                    !.size = Len(results),
                                    !.i = 1]
    /\ snapshots' = {committed}
    /\ UNCHANGED <<results, lock, addThread, committed>>

\* get_summary: the for statement asks the iterator for the next item; the
\* iterator raises RuntimeError when the dict's size has changed; an entry
\* with an empty list is skipped; otherwise "latest = results[-1]"
sum_next ==
    /\ sumThread.pc = "iter"
    /\ sumThread' =
         IF Len(results) # sumThread.size
         THEN [sumThread EXCEPT !.pc = "RuntimeError"]
         ELSE IF sumThread.i > sumThread.size
         THEN [sumThread EXCEPT !.pc = "done"]
         ELSE IF results[sumThread.i].records = <<>>
         THEN [sumThread EXCEPT !.i = @ + 1]
         ELSE [sumThread EXCEPT !.pc = "entry",
                                !.latest = Last(results[sumThread.i].records)]
    /\ UNCHANGED <<results, lock, addThread, committed, snapshots>>

\* get_summary: the task's summary is built from latest and len(results), and
\* the totals are accumulated
sum_entry ==
    /\ sumThread.pc = "entry"
    /\ LET entry == results[sumThread.i]
           latest == sumThread.latest
           task_in == Get(latest, "total_in", 0)
           task_out == Get(latest, "total_out", 0)
       IN sumThread' =
            [sumThread EXCEPT
               !.pc = "iter",
               !.i = @ + 1,
               !.latest = None,
               !.tasks = Append(@, [task_id |-> entry.task_id,
                                    total_in |-> task_in,
                                    total_out |-> task_out,
                                    status |-> Get(latest, "status", "unknown"),
                                    total_updates |-> Len(entry.records)]),
               !.total_in_all = @ + task_in,
               !.total_out_all = @ + task_out]
    /\ UNCHANGED <<results, lock, addThread, committed, snapshots>>

\* get_summary returns its summary, or the RuntimeError reaches its caller
sum_return ==
    /\ sumThread.pc \in {"done", "RuntimeError"}
    /\ sumThread' = SumIdle
    /\ UNCHANGED <<results, lock, addThread, committed, snapshots>>

\* the dict get_summary returns, from the locals of the finished loop
SummaryOf(t) ==
    [total_tasks |-> t.total_tasks,
     tasks |-> t.tasks,
     overall |-> [total_in |-> t.total_in_all,
                  total_out |-> t.total_out_all,
                  net_count |-> t.total_in_all - t.total_out_all]]

(* ------------------ ResultHandler.export_to_json, stepwise -------------- *)
ExportIdle == [pc |-> "idle", summary |-> SummaryOf(SumIdle), keys |-> <<>>,
               detailed_results |-> <<>>]

\* export_to_json: the call self.get_summary() is entered
export_begin ==
    /\ export.pc = "idle"
    /\ sum_begin
    /\ export' = [ExportIdle EXCEPT !.pc = "summary"]

\* export_to_json: get_summary has returned, 'summary' is set; a RuntimeError
\* of get_summary ends the export
export_summary ==
    /\ export.pc = "summary"
    /\ sum_return
    /\ export' = IF sumThread.pc = "done"
                  THEN [export EXCEPT !.pc = "copy", !.summary = SummaryOf(sumThread)]
                  ELSE [export EXCEPT !.pc = "RuntimeError"]

\* export_to_json: self.get_all_results(), "with self.lock: return
\* self.results.copy()": a new dict with the keys of the moment, whose values
\* are the handler's own lists
export_copy ==
    /\ export.pc = "copy"
    /\ lock = "free"
    /\ export' = [export EXCEPT !.pc = "dump",
                                 !.keys = [i \in 1..Len(results) |-> results[i].task_id]]
    /\ UNCHANGED <<results, concVars>>

\* export_to_json: json.dump writes each copied key with what its list holds
export_dump ==
    /\ export.pc = "dump"
    /\ export' = [export EXCEPT
                    !.pc = "written",
                    !.detailed_results =
                        [i \in 1..Len(export.keys) |->
                           [task_id |-> export.keys[i],
                            records |-> RecordsOf(results, export.keys[i])]]]
    /\ UNCHANGED <<results, concVars>>

\* the next export starts from scratch
export_return ==
    /\ export.pc \in {"written", "RuntimeError"}
    /\ export' = ExportIdle
    /\ UNCHANGED <<results, concVars>>

\* ResultHandler.reset: self.results.clear()
reset(store) == <<>>

\* a caller's reset() on the handler; the second handler is reset with it
agg_reset ==
    /\ results # <<>>
    /\ results' = reset(results)
    /\ resultsB' = reset(resultsB)
    /\ lastAdded' = [t \in AggTasks |-> None]

(* ------------------------------ the machines --------------------------- *)
(* ===================== TaskQueue (gender_analysis) ===================== *)
\* Python values of a task's fields: an int, a str, or a numpy array (the
\* frame of a WorkerPool task), each with its printed form
PyInt(v) == [py |-> "int", v |-> v]
PyStr(v) == [py |-> "str", v |-> v]
NdArray(v) == [py |-> "ndarray", v |-> v]

\* the tasks the clients enqueue
QueueTasks == [id : {PyInt("1"), PyInt("2")},
               type : {PyStr("test")},
               data : {PyStr("test_data"), NdArray("[[0 0]]")}]

\* the timeouts passed to dequeue, in tenths of a second; 0 is the default
\* (None)
Timeouts == {0, 5, 50}

\* json.dumps(task, default=str): an int is a JSON number, a str a JSON string;
\* any other value is replaced by str(value)
to_json(value) ==
    IF value.py = "int" THEN [js |-> "number", v |-> value.v]
    ELSE [js |-> "string", v |-> value.v]

json_dumps(task) == [json |-> [f \in DOMAIN task |-> to_json(task[f])]]

\* json.loads: a JSON number is an int, a JSON string a str
from_json(value) ==
    IF value.js = "number" THEN PyInt(value.v) ELSE PyStr(value.v)

json_loads(text) == [f \in DOMAIN text.json |-> from_json(text.json[f])]

\* enqueue, with Redis available: rpush at the tail, return True
enqueue(task) ==
    /\ Len(qhist) < MaxEnqueued
    /\ redis_list' = Append(redis_list, json_dumps(task))
    /\ qret' = [op |-> "enqueue", ok |-> TRUE, task |-> None]
    /\ qhist' = Append(qhist, task)
    /\ UNCHANGED <<qblocked, qtaken>>

\* lpop / blpop taking the head of a non-empty list, and dequeue returning it
PopHead ==
    /\ redis_list' = Tail(redis_list)
    /\ qret' = [op |-> "dequeue", ok |-> TRUE, task |-> json_loads(Head(redis_list))]
    /\ qtaken' = qtaken + 1
    /\ UNCHANGED qhist

\* int(timeout), the timeout blpop is given, in seconds
IntTimeout(timeout) == timeout \div 10

\* dequeue(timeout): blpop(timeout=int(timeout)) when the timeout is truthy
\* (blpop with timeout 0 waits until there is an element), lpop otherwise
dequeue(timeout) ==
    /\ ~qblocked
    /\ IF redis_list # <<>>
       THEN PopHead /\ UNCHANGED qblocked
       ELSE IF timeout # 0 /\ IntTimeout(timeout) = 0
            THEN qblocked' = TRUE /\ UNCHANGED <<redis_list, qret, qhist, qtaken>>
            ELSE /\ qret' = [op |-> "dequeue", ok |-> TRUE, task |-> None]
                 /\ UNCHANGED <<redis_list, qblocked, qhist, qtaken>>

\* the waiting blpop gets the element another client has pushed
dequeue_wakeup ==
    /\ qblocked
    /\ redis_list # <<>>
    /\ PopHead
    /\ qblocked' = FALSE

(* =================== BatchProcessor (gender_analysis) ================== *)
BatchItems == {"test_0", "test_1", "test_2"}

\* the batch _process_batch extracts, popleft() by popleft(), leaving the
\* queue empty; BatchFromRight is what pop() would extract
BatchFromRight(q) == [i \in 1..Len(q) |-> q[Len(q) + 1 - i]]
Batch(q) == q

\* _process_batch on the queue q: nothing for an empty queue; otherwise the
\* whole queue goes to process_fn, and the statistics are updated when
\* process_fn returns (raises = FALSE)
_process_batch(q, raises) ==
    IF Len(q) = 0
    THEN batch_queue' = q /\ UNCHANGED <<total_batches, handed>>
    ELSE /\ batch_queue' = <<>>
         /\ handed' = handed \o Batch(q)
         /\ total_batches' = IF raises THEN total_batches ELSE total_batches + 1

\* add_item(item); elapsed: the timeout has passed since the last batch
add_item(item, elapsed, raises) ==
    /\ total_items < MaxItems
    /\ total_items' = total_items + 1
    /\ added' = Append(added, item)
    /\ lastCall' = "add_item"
    /\ LET q == Append(batch_queue, item)
           should_process == Len(q) >= batch_size \/ elapsed
       IN  IF should_process
           THEN _process_batch(q, raises)
           ELSE batch_queue' = q /\ UNCHANGED <<total_batches, handed>>

flush(raises) ==
    /\ lastCall' = "flush"
    /\ IF Len(batch_queue) = 0
       THEN UNCHANGED <<batch_queue, total_batches, handed>>
       ELSE _process_batch(batch_queue, raises)
    /\ UNCHANGED <<total_items, added>>

(* ====================== CameraPool (gender_analysis) =================== *)
\* a new CameraWorker; start_returned records what its start() returned
CameraWorker(camera_id, camera_url, callback) ==
    [camera_id |-> camera_id, camera_url |-> camera_url, callback |-> callback,
     capture |-> "none", is_running |-> FALSE, start_returned |-> FALSE]

\* what cv2.VideoCapture and Thread.start can do in start()
StartOutcomes == {"opened", "not_opened", "capture_raises", "thread_raises"}

\* CameraWorker.start: the worker afterwards, with the value returned
startAnyway(worker, outcome) ==
    [worker EXCEPT !.capture = "open", !.is_running = TRUE, !.start_returned = TRUE]
start(worker, outcome) ==
    IF worker.is_running THEN [worker EXCEPT !.start_returned = FALSE]
    ELSE IF outcome = "capture_raises" THEN [worker EXCEPT !.start_returned = FALSE]
    ELSE IF outcome = "not_opened"
         THEN [worker EXCEPT !.capture = "closed", !.start_returned = FALSE]
    ELSE IF outcome = "thread_raises"
         THEN [worker EXCEPT !.capture = "open", !.is_running = TRUE,
                             !.start_returned = FALSE]
    ELSE [worker EXCEPT !.capture = "open", !.is_running = TRUE,
                        !.start_returned = TRUE]

CameraPool_add_camera(camera_id, camera_url, callback, outcome) ==
    IF cam_workers[camera_id] # None
    THEN /\ camret' = [op |-> "add_camera", camera_id |-> camera_id, value |-> FALSE]
         /\ UNCHANGED <<cam_workers, cam_callbacks>>
    ELSE LET worker == start(CameraWorker(camera_id, camera_url, callback), outcome)
         IN  IF worker.start_returned
             THEN /\ cam_workers' = [cam_workers EXCEPT ![camera_id] = worker]
                  /\ cam_callbacks' = IF callback # None
                                        THEN [cam_callbacks EXCEPT ![camera_id] = callback]
                                        ELSE cam_callbacks
                  /\ camret' = [op |-> "add_camera", camera_id |-> camera_id,
                                 value |-> TRUE]
             ELSE /\ camret' = [op |-> "add_camera", camera_id |-> camera_id,
                                 value |-> FALSE]
                  /\ UNCHANGED <<cam_workers, cam_callbacks>>

remove_camera(camera_id) ==
    IF cam_workers[camera_id] = None
    THEN /\ camret' = [op |-> "remove_camera", camera_id |-> camera_id, value |-> FALSE]
         /\ UNCHANGED <<cam_workers, cam_callbacks>>
    ELSE /\ cam_workers' = [cam_workers EXCEPT ![camera_id] = None]
         /\ cam_callbacks' = [cam_callbacks EXCEPT ![camera_id] = None]
         /\ camret' = [op |-> "remove_camera", camera_id |-> camera_id, value |-> TRUE]

(* ================== the shared detector (count_people) ================= *)
\* no blob: the net's input before the first setInput, a worker's detections
\* before its forward()
NoBlob == <<0, 0>>

\* the blob worker w makes of its current frame
Blob(w) == <<w, dframe[w]>>

\* the workers inside self.net.forward()
InForward == {w \in Workers : dpc[w] = "forward"}

\* what a forward() that overlapped another call on the same cv2.dnn.Net can
\* return: the detections of any blob given to the net, or of none
ForwardOutcomes == {NoBlob} \cup (Workers \X (1..MaxDetFrames))

\* self.net.setInput(blob), no lock held
net_setInput(w) ==
    /\ dpc[w] = "blob"
    /\ net_input' = Blob(w)
    /\ net_overlapped' = net_overlapped \cup InForward
    /\ dpc' = [dpc EXCEPT ![w] = "set"]
    /\ UNCHANGED <<dframe, detections>>

\* self.net.forward() starts on the net's current input, no lock held
net_forward_begin(w) ==
    /\ dpc[w] = "set"
    /\ detections' = [detections EXCEPT ![w] = net_input]
    /\ net_overlapped' = IF InForward = {} THEN net_overlapped
                          ELSE net_overlapped \cup InForward \cup {w}
    /\ dpc' = [dpc EXCEPT ![w] = "forward"]
    /\ UNCHANGED <<net_input, dframe>>

\* self.net.forward() returns
net_forward_end(w, out) ==
    /\ dpc[w] = "forward"
    /\ detections' = IF w \in net_overlapped
                      THEN [detections EXCEPT ![w] = out]
                      ELSE detections
    /\ net_overlapped' = net_overlapped \ {w}
    /\ dpc' = [dpc EXCEPT ![w] = "done"]
    /\ UNCHANGED <<net_input, dframe>>

\* the worker goes on to its next detect frame
next_detect_frame(w) ==
    /\ dpc[w] = "done"
    /\ dframe[w] < MaxDetFrames
    /\ dframe' = [dframe EXCEPT ![w] = @ + 1]
    /\ detections' = [detections EXCEPT ![w] = NoBlob]
    /\ dpc' = [dpc EXCEPT ![w] = "blob"]
    /\ UNCHANGED <<net_input, net_overlapped>>

(* ============ the detect and track phases (count_people) =============== *)
\* one row of the detector's output: confidence in percent, class name, the
\* box scaled to the frame, and whether the box's numbers are finite
Detection(score, class, box, finite) ==
    [confidence_score |-> score, class |-> class, box |-> box, finite |-> finite]

DetectionRows ==
    {Detection(90, "person", BoxA, TRUE), Detection(90, "person", BoxFar, TRUE),
     Detection(30, "person", BoxA, TRUE), Detection(90, "chair", BoxA, TRUE),
     Detection(confidence, "person", BoxNear, TRUE),
     Detection(90, "person", <<110, 90, 90, 110>>, TRUE),
     Detection(90, "person", BoxA, FALSE)}

\* the outputs of one detector call: up to MaxDetections rows
DetectionLists == UNION {[1..n -> DetectionRows] : n \in 0..MaxDetections}

\* the tests a detection passes before a tracker is started on it
Accepted(row) ==
    /\ row.confidence_score > confidence
    /\ row.class = "person"
    /\ row.finite
    /\ ~(\/ row.box[3] <= row.box[1]
          \/ row.box[4] <= row.box[2]
          \/ row.box[1] < 0
          \/ row.box[2] < 0)

\* the trackers started in a detect frame, in the order of the detections
RECURSIVE StartTrackers(_)
StartTrackers(rows) ==
    IF rows = <<>> THEN <<>>
    ELSE IF Accepted(Head(rows)) THEN <<Head(rows).box>> \o StartTrackers(Tail(rows))
    ELSE StartTrackers(Tail(rows))

\* the positions a tracker can report after tracker.update(rgb); a
\* correlation tracker following an object that leaves the frame reports a
\* box beyond the frame's edge, and nothing is tested before rects.append
BoxOff == <<-5, 90, 15, 110>>

Positions == {BoxA, BoxNear, BoxFar, BoxOff}

\* count_people: the detect or track phase of one frame and the ct.update
\* call after it; rows is what the detector would return, pos what each
\* tracker reports
detect_or_track(rows, pos) ==
    /\ frameIndex < MaxLoopFrames
    /\ frameStatus' = FrameStatus(frameIndex)
    /\ IF frameStatus' = "Detecting"
       THEN /\ trackers' = StartTrackers(rows)
            /\ forwardCalls' = forwardCalls + 1
            /\ frameDetections' = rows
            /\ updateRects' = <<>>
       ELSE /\ updateRects' = [k \in 1..Len(trackers) |-> pos[k]]
            /\ frameDetections' = <<>>
            /\ UNCHANGED <<trackers, forwardCalls>>
    /\ frameIndex' = frameIndex + 1

(* ================ count_people, call after call (one worker) =========== *)
\* no final record yet
NotReported == <<-1, -1>>

\* CentroidTracker(maxDisappeared=40, maxDistance=50)
CentroidTracker == [nextObjectID |-> 0, objects |-> <<>>, disappeared |-> <<>>]

\* the tracker, ledger and counters at the head of count_people: locals,
\* created by each call; KeptLocals is what instance attributes set once in
\* __init__ would hold
KeptLocals ==
    [ct |-> ct, trackableObjects |-> trackableObjects,
     totalUp |-> totalUp, totalDown |-> totalDown]
FreshLocals ==
    [ct |-> CentroidTracker, trackableObjects |-> [id \in ObjectIDs |-> None],
     totalUp |-> 0, totalDown |-> 0]

\* run() calls process_camera / process_video, which calls count_people
count_people_begin ==
    /\ ~counting
    /\ taskNo < MaxTasks
    /\ counting' = TRUE
    /\ taskNo' = taskNo + 1
    /\ ct' = FreshLocals.ct
    /\ trackableObjects' = FreshLocals.trackableObjects
    /\ totalUp' = FreshLocals.totalUp
    /\ totalDown' = FreshLocals.totalDown
    /\ frameNo' = 0
    /\ outs' = [id \in ObjectIDs |-> 0]
    /\ ins' = [id \in ObjectIDs |-> 0]
    /\ updates' = 0
    /\ UNCHANGED <<scenarioA, registered, taskIn, taskOut, reported>>

\* one frame of the call: the counting part
count_people_frame(objects) ==
    /\ counting
    /\ process_frame(objects)
    /\ taskIn' = [taskIn EXCEPT ![taskNo] = @ + (totalDown' - totalDown)]
    /\ taskOut' = [taskOut EXCEPT ![taskNo] = @ + (totalUp' - totalUp)]
    /\ UNCHANGED <<counting, taskNo, reported, trackVars>>

\* one frame of the call: the ct.update part
count_people_track(rects) ==
    /\ counting
    /\ ct_update(rects)
    /\ UNCHANGED <<countVars, taskVars>>

\* the finally block: the final record carries totalDown and totalUp
count_people_end ==
    /\ counting
    /\ counting' = FALSE
    /\ reported' = [reported EXCEPT ![taskNo] = <<totalDown, totalUp>>]
    /\ UNCHANGED <<countVars, trackVars, taskNo, taskIn, taskOut>>

PoolInit ==
    /\ task_queue = <<>>
    /\ result_queue = <<>>
    /\ added_sources = {}
    /\ stats = [total_tasks |-> 0, completed_tasks |-> 0]
    /\ running = FALSE
    /\ workers = {}
    /\ collector = "idle"
    /\ results = <<>>
    /\ pc = [w \in AllWorkers |-> "new"]
    /\ current_task = [w \in AllWorkers |-> None]
    /\ totalFrames = [w \in AllWorkers |-> 0]
    /\ vs = [w \in AllWorkers |-> "none"]
    /\ submitted = {}
    /\ dequeued = [s \in Sources |-> 0]
    /\ framesSinceStop = [w \in AllWorkers |-> 0]
    /\ joining = 0
    /\ lock = "free"
    /\ addThread = AddIdle
    /\ sumThread = SumIdle
    /\ committed = <<>>
    /\ snapshots = {}
    /\ ct = [nextObjectID |-> 0, objects |-> <<>>, disappeared |-> <<>>]
    /\ updates = 0
    /\ scenarioA = FALSE
    /\ registered = {}

CountInit ==
    /\ trackableObjects = [id \in ObjectIDs |-> None]
    /\ totalUp = 0
    /\ totalDown = 0
    /\ frameNo = 0
    /\ outs = [id \in ObjectIDs |-> 0]
    /\ ins = [id \in ObjectIDs |-> 0]

AggInit ==
    /\ resultsB = <<>>
    /\ lastAdded = [t \in AggTasks |-> None]

QueueInit ==
    /\ redis_list = <<>>
    /\ qret = [op |-> "none", ok |-> TRUE, task |-> None]
    /\ qblocked = FALSE
    /\ qhist = <<>>
    /\ qtaken = 0

BatchInit ==
    /\ batch_queue = <<>>
    /\ total_items = 0
    /\ total_batches = 0
    /\ lastCall = "none"
    /\ added = <<>>
    /\ handed = <<>>

CameraPoolInit ==
    /\ cam_workers = [id \in CameraIds |-> None]
    /\ cam_callbacks = [id \in CameraIds |-> None]
    /\ camret = [op |-> "none", camera_id |-> "", value |-> FALSE]

ServiceInit == QueueInit /\ BatchInit /\ CameraPoolInit

DetectorInit ==
    /\ net_input = NoBlob
    /\ net_overlapped = {}
    /\ dpc = [w \in Workers |-> "blob"]
    /\ dframe = [w \in Workers |-> 1]
    /\ detections = [w \in Workers |-> NoBlob]

LoopInit ==
    /\ frameIndex = 0
    /\ trackers = <<>>
    /\ updateRects = <<>>
    /\ frameStatus = "Waiting"
    /\ forwardCalls = 0
    /\ frameDetections = <<>>

FrameInit == DetectorInit /\ LoopInit

TaskInit ==
    /\ counting = FALSE
    /\ taskNo = 0
    /\ taskIn = [t \in 1..MaxTasks |-> 0]
    /\ taskOut = [t \in 1..MaxTasks |-> 0]
    /\ reported = [t \in 1..MaxTasks |-> NotReported]

ExportInit == export = ExportIdle

MainInit ==
    /\ adder = AdderIdle
    /\ mainpc = "add"

ReaderInit ==
    /\ frame_q = <<>>
    /\ reader_running = TRUE
    /\ rpc = "loop"
    /\ rframe = 0
    /\ captured = 0
    /\ lastRead = None
    /\ frames_read = <<>>

AppInit == TaskInit /\ ExportInit /\ MainInit /\ ReaderInit

Init == PoolInit /\ CountInit /\ AggInit /\ ServiceInit /\ FrameInit /\ AppInit

\* the worker thread w, and the collector thread, as scheduled units
WorkerThread(w) == WorkerStep(w) /\ UNCHANGED <<submitted, countVars, aggVars, stopVars, concVars, trackVars, serviceVars, frameVars, appVars>>

CollectorThread ==
    /\ collect_check \/ collect_get \/ collect_empty
    /\ UNCHANGED <<submitted, countVars, aggVars, stopVars, concVars, trackVars, serviceVars, frameVars, appVars>>

Next ==
    \/ /\ \/ \E s \in Sources, id \in PoolIds : add_camera(s, id)
          \/ \E s \in Sources, id \in PoolIds : add_video(s, id)
          \/ workers = {} /\ start_processing
          \/ workers # {} /\ running /\ stop_processing
       /\ UNCHANGED <<submitted, countVars, aggVars, stopVars, concVars, trackVars, serviceVars, frameVars, appVars>>
    \/ CollectorThread
    \/ \E w \in Workers : WorkerThread(w)

Spec == Init /\ [][Next]_vars

\* Scheduling: every thread that can take a step eventually takes one.  A
\* stream is finite: a worker in the frame loop eventually leaves it.
FairSpec ==
    /\ Spec
    /\ \A w \in Workers : WF_vars(WorkerThread(w))
    /\ WF_vars(CollectorThread)

\* The lifecycle machine: the caller submits one source, calls
\* start_processing and stop_processing in any order and any number of times
\* (from one thread, so not while it is inside stop_processing's join loop),
\* and the worker threads run; the collector is left out.
LifeSource == "s1"

LifeNext ==
    \/ /\ joining = 0
       /\ \/ \E id \in PoolIds : add_camera(LifeSource, id)
          \/ \E id \in PoolIds : add_video(LifeSource, id)
          \/ start_processing
       /\ UNCHANGED <<submitted, countVars, aggVars, stopVars, concVars, trackVars, serviceVars, frameVars, appVars>>
    \/ /\ joining = 0
       /\ Len(task_queue) <= WorkerCount * MaxStarts
       /\ stop_processing
       /\ joining' = IF workers = {} THEN 0 ELSE 1
       /\ UNCHANGED <<submitted, countVars, aggVars, concVars, trackVars, serviceVars, frameVars, appVars>>
    \/ join_worker /\ UNCHANGED <<submitted, countVars, aggVars, concVars, trackVars, serviceVars, frameVars, appVars>>
    \/ \E w \in AllWorkers : WorkerThread(w)

LifeSpec == Init /\ [][LifeNext]_vars

\* The submission race machine: one caller thread adds sources statement by
\* statement, before and after it has started the pool, while the workers and
\* the collector run.
AddCaller ==
    /\ \/ \E s \in Sources, id \in PoolIds : add_task_put(Task("camera", id, s))
       \/ \E s \in Sources, id \in PoolIds : add_task_put(Task("video", id, s))
       \/ add_task_mark
       \/ add_task_count
       \/ adder.pc = "idle" /\ workers = {} /\ start_processing /\ UNCHANGED adder
       \/ adder.pc = "idle" /\ workers # {} /\ running /\ stop_processing
             /\ UNCHANGED adder
    /\ UNCHANGED <<submitted, countVars, aggVars, stopVars, concVars, trackVars,
                   serviceVars, frameVars, taskVars, exportVars, mainpc,
                   readerVars>>

AddNext ==
    \/ AddCaller
    \/ CollectorThread
    \/ \E w \in Workers : WorkerThread(w)

AddSpec == Init /\ [][AddNext]_vars

\* The reader machine: the reader thread of one ThreadingClass and one
\* consumer calling read() and, at the end, release().
ReaderThread ==
    \/ reader_loop
    \/ reader_capture
    \/ reader_capture_fails
    \/ reader_test
    \/ reader_drop
    \/ reader_put

ReaderNext ==
    /\ ReaderThread \/ ThreadingClass_read \/ ThreadingClass_release
    /\ UNCHANGED <<poolVars, submitted, countVars, aggVars, stopVars, concVars,
                   trackVars, serviceVars, frameVars, taskVars, exportVars,
                   mainVars>>

ReaderSpec == Init /\ [][ReaderNext]_vars

\* The main program: it submits its sources, starts the pool and waits in its
\* loop; no signal is delivered.
MainThread ==
    /\ \/ /\ mainpc = "add"
          /\ \/ \E s \in Sources, id \in PoolIds : add_camera(s, id)
             \/ \E s \in Sources, id \in PoolIds : add_video(s, id)
          /\ UNCHANGED mainpc
       \/ main_start
       \/ main_wait
    /\ UNCHANGED <<submitted, countVars, aggVars, stopVars, concVars, trackVars,
                   serviceVars, frameVars, taskVars, exportVars, adder,
                   readerVars>>

MainNext ==
    \/ MainThread
    \/ CollectorThread
    \/ \E w \in Workers : WorkerThread(w)

MainSpec == Init /\ [][MainNext]_vars

\* Scheduling: main, the workers and the collector each go on when they can.
FairMainSpec ==
    /\ MainSpec
    /\ WF_vars(MainThread)
    /\ \A w \in Workers : WF_vars(WorkerThread(w))
    /\ WF_vars(CollectorThread)

\* The join loop is the caller's own thread: it goes on whenever it can.  No
\* fairness is assumed of the workers: a worker may never finish its Task.
FairLifeSpec == LifeSpec /\ WF_vars(join_worker /\ UNCHANGED <<submitted, countVars, aggVars, concVars, trackVars, serviceVars, frameVars, appVars>>)

\* The camera machine: one source, submitted as a camera or as a video; a
\* camera may stop delivering frames while its Task is processed
StallWorkerThread(w) ==
    /\ WorkerStep(w) \/ frame_none(w)
    /\ UNCHANGED <<submitted, countVars, aggVars, stopVars, concVars, trackVars, serviceVars, frameVars, appVars>>

StallNext ==
    \/ /\ \/ \E id \in PoolIds : add_camera(LifeSource, id)
          \/ \E id \in PoolIds : add_video(LifeSource, id)
          \/ workers = {} /\ start_processing
          \/ workers # {} /\ running /\ stop_processing
          \/ \E w \in Workers : camera_stops(w)
       /\ UNCHANGED <<submitted, countVars, aggVars, stopVars, concVars, trackVars, serviceVars, frameVars, appVars>>
    \/ CollectorThread
    \/ \E w \in Workers : StallWorkerThread(w)

StallSpec == Init /\ [][StallNext]_vars

\* Scheduling: every thread that can take a step eventually takes one
FairStallSpec ==
    /\ StallSpec
    /\ \A w \in Workers : WF_vars(StallWorkerThread(w))
    /\ WF_vars(CollectorThread)

\* The report machine: one Task of up to MaxReportFrames frames, processed by
\* the first worker; the collector is left out, so the result queue holds
\* every record of the Task in the order the worker emitted them
ReportWorker == 1

ReportNext ==
    \/ /\ \/ \E id \in PoolIds : add_camera(LifeSource, id)
          \/ \E id \in PoolIds : add_video(LifeSource, id)
          \/ workers = {} /\ start_processing
       /\ UNCHANGED <<submitted, countVars, aggVars, stopVars, concVars, trackVars, serviceVars, frameVars, appVars>>
    \/ /\ \/ run_get_task(ReportWorker)
          \/ open_ok(ReportWorker)
          \/ open_unreadable(ReportWorker)
          \/ open_raises(ReportWorker)
          \/ frame_step(ReportWorker, MaxReportFrames)
          \/ frame_end(ReportWorker)
          \/ frame_raises(ReportWorker)
          \/ cleanup_ok(ReportWorker)
          \/ cleanup_raises(ReportWorker)
       /\ UNCHANGED <<submitted, countVars, aggVars, stopVars, concVars, trackVars, serviceVars, frameVars, appVars>>

ReportSpec == Init /\ [][ReportNext]_vars

\* The two-thread machine: the collector thread inside add_result, another
\* thread (main's dashboard, an export) inside get_summary
ConcNext ==
    /\ \/ \E t \in AggTasks, r \in ConcRecords : add_acquire(t, r)
       \/ add_create
       \/ add_append
       \/ add_release
       \/ sum_begin
       \/ sum_next
       \/ sum_entry
       \/ sum_return
    /\ UNCHANGED <<task_queue, result_queue, added_sources, stats, running,
                   workers, collector, pc, current_task, totalFrames, vs,
                   dequeued, framesSinceStop, submitted, countVars, aggVars,
                   stopVars, trackVars, serviceVars, frameVars, appVars>>

ConcSpec == Init /\ [][ConcNext]_vars

\* The export machine: the collector thread inside add_result, the main
\* thread inside export_to_json
ExportNext ==
    /\ \/ \E t \in AggTasks, r \in ConcRecords :
             add_acquire(t, r) /\ UNCHANGED export
       \/ add_create /\ UNCHANGED export
       \/ add_append /\ UNCHANGED export
       \/ add_release /\ UNCHANGED export
       \/ export_begin
       \/ export.pc = "summary" /\ sum_next /\ UNCHANGED export
       \/ export.pc = "summary" /\ sum_entry /\ UNCHANGED export
       \/ export_summary
       \/ export_copy
       \/ export_dump
       \/ export_return
    /\ UNCHANGED <<task_queue, result_queue, added_sources, stats, running,
                   workers, collector, pc, current_task, totalFrames, vs,
                   dequeued, framesSinceStop, submitted, countVars, aggVars,
                   stopVars, trackVars, serviceVars, frameVars, taskVars,
                   mainVars, readerVars>>

ExportSpec == Init /\ [][ExportNext]_vars

\* The tracker machine: update() calls on the tracker of one Task
TrackNext ==
    /\ \E rects \in TrackInputs : ct_update(rects)
    /\ UNCHANGED <<poolVars, submitted, countVars, aggVars, stopVars, concVars,
                   serviceVars, frameVars, appVars>>

TrackSpec == Init /\ [][TrackNext]_vars

\* add_camera / add_video calls from one thread, before start_processing
\* The task queue machine: clients of one TaskQueue
QueueNext ==
    /\ \/ \E task \in QueueTasks : enqueue(task)
       \/ \E timeout \in Timeouts : dequeue(timeout)
       \/ dequeue_wakeup
    /\ UNCHANGED <<poolVars, submitted, countVars, aggVars, stopVars, concVars,
                   trackVars, batchVars, camVars, frameVars, appVars>>

QueueSpec == Init /\ [][QueueNext]_vars

\* The batch machine: add_item and flush calls from one thread
BatchNext ==
    /\ \/ \E item \in BatchItems, elapsed \in BOOLEAN, raises \in BOOLEAN :
             add_item(item, elapsed, raises)
       \/ \E raises \in BOOLEAN : flush(raises)
    /\ UNCHANGED <<poolVars, submitted, countVars, aggVars, stopVars, concVars,
                   trackVars, queueVars, camVars, frameVars, appVars>>

BatchSpec == Init /\ [][BatchNext]_vars

\* The camera pool machine: add_camera and remove_camera calls from one thread
CameraPoolNext ==
    /\ \/ \E camera_id \in CameraIds, camera_url \in CameraUrls,
             callback \in Callbacks, outcome \in StartOutcomes :
             CameraPool_add_camera(camera_id, camera_url, callback, outcome)
       \/ \E camera_id \in CameraIds : remove_camera(camera_id)
    /\ UNCHANGED <<poolVars, submitted, countVars, aggVars, stopVars, concVars,
                   trackVars, queueVars, batchVars, frameVars, appVars>>

CameraPoolSpec == Init /\ [][CameraPoolNext]_vars

\* The detector machine: the workers of one pool on their detect frames, all
\* holding the net start_processing gave them
DetectorNext ==
    /\ \E w \in Workers :
          \/ net_setInput(w)
          \/ net_forward_begin(w)
          \/ \E out \in ForwardOutcomes : net_forward_end(w, out)
          \/ next_detect_frame(w)
    /\ UNCHANGED <<poolVars, submitted, countVars, aggVars, stopVars, concVars,
                   trackVars, serviceVars, loopVars, appVars>>

DetectorSpec == Init /\ [][DetectorNext]_vars

\* The frame machine: the frames of one Task, any detector output, any
\* tracker positions
LoopNext ==
    /\ \E rows \in DetectionLists, pos \in [1..MaxDetections -> Positions] :
          /\ FrameStatus(frameIndex) = "Detecting" =>
                \A k \in 1..MaxDetections : pos[k] = BoxA
          /\ FrameStatus(frameIndex) # "Detecting" =>
                /\ rows = <<>>
                /\ \A k \in (Len(trackers) + 1)..MaxDetections : pos[k] = BoxA
          /\ detect_or_track(rows, pos)
    /\ UNCHANGED <<poolVars, submitted, countVars, aggVars, stopVars, concVars,
                   trackVars, serviceVars, detVars, appVars>>

LoopSpec == Init /\ [][LoopNext]_vars

\* The task machine: one worker processes MaxTasks Tasks one after the
\* other; one identity is seen, anywhere; the tracker gets BoxA once per Task
TaskNext ==
    /\ \/ count_people_begin
       \/ \E objects \in {<<>>} \cup [{0} -> YVals[0]] : count_people_frame(objects)
       \/ updates = 0 /\ count_people_track(<<BoxA>>)
       \/ count_people_end
    /\ UNCHANGED <<poolVars, submitted, aggVars, stopVars, concVars, serviceVars,
                   frameVars, exportVars, mainVars, readerVars>>

TaskSpec == Init /\ [][TaskNext]_vars

SubmitNext ==
    \/ \E s \in Sources, id \in SubmitIds :
          /\ add_camera(s, id)
          /\ submitted' = submitted \cup {<<"camera", s>>}
          /\ UNCHANGED <<countVars, aggVars, stopVars, concVars, trackVars, serviceVars, frameVars, appVars>>
    \/ \E s \in Sources, id \in SubmitIds :
          /\ add_video(s, id)
          /\ submitted' = submitted \cup {<<"video", s>>}
          /\ UNCHANGED <<countVars, aggVars, stopVars, concVars, trackVars, serviceVars, frameVars, appVars>>

SubmitSpec == Init /\ [][SubmitNext]_vars

\* the frames of one Task: any identities, any centroids
CountNext ==
    /\ \E seen \in SUBSET ObjectIDs :
          \E objects \in {f \in [seen -> UNION {YVals[id] : id \in ObjectIDs}] :
                              \A id \in seen : f[id] \in YVals[id]} :
             process_frame(objects)
    /\ UNCHANGED <<poolVars, submitted, aggVars, stopVars, concVars, trackVars, serviceVars, frameVars, appVars>>

CountSpec == Init /\ [][CountNext]_vars

\* add_result calls, each record replayed later to the second handler
AggNext ==
    /\ \/ \E t \in AggTasks, r \in AggRecords : agg_add_result(t, r)
       \/ \E t \in AggTasks : agg_replay_result(t)
       \/ agg_reset
    /\ UNCHANGED <<task_queue, result_queue, added_sources, stats, running,
                   workers, collector, pc, current_task, totalFrames, vs,
                   dequeued, framesSinceStop, submitted, countVars, stopVars, concVars, trackVars, serviceVars, frameVars, appVars>>

AggSpec == Init /\ [][AggNext]_vars

(* ======================= properties of the pool ======================== *)
SubmittedSources == {c[2] : c \in submitted}

TasksIn(queue) == {i \in 1..Len(queue) : queue[i] # None}

SentinelsIn(queue) == Cardinality({i \in 1..Len(queue) : queue[i] = None})

InQueue(s) == \E i \in TasksIn(task_queue) : task_queue[i].source = s

\* the worker is inside process_camera / process_video
Processing(w) == pc[w] \in {"open", "loop", "cleanup"}

Stopped == workers # {} /\ ~running

Exited == {w \in Workers : pc[w] = "done"}

\* a record of worker w for task_id with a terminal status, on the result
\* queue or already in the handler's store
TerminalIn(queue, store, w, task_id) ==
    LET terminal(r) == /\ r.worker_id = w
                       /\ r.task_id = task_id
                       /\ r.status \in {"completed", "error"}
    IN \/ \E i \in 1..Len(queue) : terminal(queue[i])
       \/ \E i \in 1..Len(store) :
            \E j \in 1..Len(store[i].records) : terminal(store[i].records[j])

\* C1: a call whose source was submitted before (as a camera or as a video)
\* leaves the task queue and stats.total_tasks unchanged, and the number of
\* Tasks ever enqueued (still queued or already dequeued, and total_tasks)
\* equals the number of distinct sources submitted.
C1_DuplicateSourceRejected ==
    /\ [](/\ stats.total_tasks = Cardinality(SubmittedSources)
          /\ Cardinality(TasksIn(task_queue)) + SumOver(dequeued, Sources)
               = Cardinality(SubmittedSources))
    /\ [][\A s \in Sources, id \in SubmitIds :
            (s \in SubmittedSources /\ (add_camera(s, id) \/ add_video(s, id)))
               => UNCHANGED <<task_queue, stats>>]_vars

\* C1 witness: a source was submitted both as a camera and as a video, and
\* one Task was enqueued for it
C1_Witness ==
    /\ <<"camera", "s1">> \in submitted
    /\ <<"video", "s1">> \in submitted
    /\ SubmittedSources = {"s1"}
    /\ stats.total_tasks = 1

\* C2: no two workers are processing Tasks with the same source at once.
C2_OneWorkerPerSource ==
    \A w1, w2 \in Workers :
        (w1 # w2 /\ Processing(w1) /\ Processing(w2))
            => current_task[w1].source # current_task[w2].source

\* C2 witness: two workers are in their frame loops at the same time
C2_Witness ==
    /\ pc[1] = "loop" /\ pc[2] = "loop"
    /\ totalFrames[1] > 0 /\ totalFrames[2] > 0

\* C5 (as claimed): when a worker finishes a Task and goes back to the queue,
\* a terminal record (completed or error) of that Task has been sent.
C5_TerminalRecordAlways ==
    [][\A w \in Workers :
         (Processing(w) /\ ~Processing(w)')
            => TerminalIn(result_queue', results', w, current_task[w].task_id)]_vars

\* C6 (as claimed): a record sent for a Task whose source failed (a video
\* that could not be opened, an exception in the frame loop) has status error.
C6_FailureReportedAsError ==
    [][\A w \in Workers :
         (/\ Len(result_queue') > Len(result_queue)
          /\ Last(result_queue').worker_id = w
          /\ (vs[w] = "unopened" \/ frame_raises(w)))
            => Last(result_queue').status = "error"]_vars

\* C7 (as claimed): once stop_processing has cleared the running flag, a
\* worker finishes at most the frame iteration it is in.
C7_StopsAfterCurrentFrame ==
    \A w \in Workers : framesSinceStop[w] <= 1

FrameCounts(records) ==
    LET idx == {i \in 1..Len(records) : "frame_count" \in DOMAIN records[i]}
    IN [i \in idx |-> records[i].frame_count]

\* C12 (as claimed): along the history stored under a task_id the records are
\* in the order one worker emitted them, so frame_count never decreases
\* along the history.
C12_HistoryInEmissionOrder ==
    \A k \in 1..Len(results) :
        LET fc == FrameCounts(results[k].records) IN
        \A i, j \in DOMAIN fc : i < j => fc[i] <= fc[j]

\* worker w's step is one in which an exception was raised while it processed
\* its Task: opening the stream, in the frame loop, or releasing the stream
ExceptionStep(w) == open_raises(w) \/ frame_raises(w) \/ cleanup_raises(w)

Alive == {w \in workers : pc[w] # "done"}

\* C16: a stop_processing call that has entered its join loop always leaves
\* it, whatever the workers do, after one join per worker: the loop index only
\* moves forward by one, and from the last worker out of the loop.
C16_StopAlwaysReturns ==
    /\ [][joining > 0 /\ joining' # joining
            => joining' = IF joining < Cardinality(workers) THEN joining + 1 ELSE 0]_vars
    /\ (joining > 0) ~> (joining = 0)

\* C16 witness: stop_processing is back from its join loop while a worker is
\* still in the frame loop of its Task
C16_Witness ==
    /\ joining = 0
    /\ ~running /\ workers # {}
    /\ SentinelsIn(task_queue) > 0
    /\ \E w \in workers : pc[w] = "loop" /\ framesSinceStop[w] > 0

\* C17 (as claimed): the worker threads created and not yet ended never
\* outnumber the worker_count given to the constructor.
C17_PoolSizeFixed == Cardinality(Alive) <= WorkerCount

\* C19 (as claimed): a Task is pending while it waits on the queue and running
\* while a worker processes it.
C19_StatusFollowsLifecycle ==
    /\ \A i \in TasksIn(task_queue) : task_queue[i].status = "pending"
    /\ \A w \in Workers : Processing(w) => current_task[w].status = "running"


(* ================== properties of the counting machine ================= *)
InLedger(id) == trackableObjects[id] # None

\* C3: an identity causes at most one increment of total_in + total_out; the
\* counters hold exactly those increments; once counted is set it stays set
\* and the identity increments nothing more.
C3_CountedAtMostOnce ==
    /\ [](/\ \A id \in ObjectIDs : outs[id] + ins[id] <= 1
          /\ totalUp + totalDown
               = SumOver(outs, ObjectIDs) + SumOver(ins, ObjectIDs))
    /\ [][\A id \in ObjectIDs :
            (InLedger(id) /\ trackableObjects[id].counted)
               => /\ trackableObjects'[id].counted
                  /\ outs'[id] = outs[id]
                  /\ ins'[id] = ins[id]]_vars

\* C3 witness: identity 0 was counted IN at its second frame and then moved
\* up across the midline without being counted again
C3_Witness ==
    /\ InLedger(0)
    /\ trackableObjects[0].centroids = <<240, 260, 240>>
    /\ trackableObjects[0].counted
    /\ ins[0] = 1 /\ outs[0] = 0

\* C10: for an identity in the ledger and not yet counted, a frame with
\* y-coordinate cy increments total_out (only) iff cy is less than the mean of
\* the recorded y-coordinates and less than the midline, total_in (only) iff
\* cy is greater than that mean and greater than the midline, and nothing
\* otherwise; the first frame of an identity increments nothing.  Scenario:
\* y = 300, 290, 260, 240 with midline 250 gives one OUT, at the fourth frame.
C10_CrossingRule ==
    /\ [][\A id \in ObjectIDs :
            LET before == trackableObjects[id]
                after == trackableObjects'[id]
            IN /\ (~InLedger(id) /\ after # None)
                    => (outs'[id] = 0 /\ ins'[id] = 0 /\ ~after.counted)
               /\ (InLedger(id) /\ ~before.counted /\ after # before)
                    => LET cy == Last(after.centroids)
                           n == Len(before.centroids)
                           total == SumSeq(before.centroids)
                           out == cy * n < total /\ cy < FrameH \div 2
                           in == cy * n > total /\ cy > FrameH \div 2
                       IN /\ outs'[id] = (IF out THEN 1 ELSE 0)
                          /\ ins'[id] = (IF in THEN 1 ELSE 0)
                          /\ totalUp' - totalUp >= outs'[id]
                          /\ totalDown' - totalDown >= ins'[id]]_vars
    /\ [](/\ totalUp = SumOver(outs, ObjectIDs)
          /\ totalDown = SumOver(ins, ObjectIDs)
          /\ InLedger(0) =>
               /\ trackableObjects[0].centroids
                     \in {<<300>>, <<300, 290>>, <<300, 290, 260>>}
                    => (outs[0] = 0 /\ ins[0] = 0)
               /\ trackableObjects[0].centroids = <<300, 290, 260, 240>>
                    => (outs[0] = 1 /\ ins[0] = 0))

\* C10 witness: the scenario's four frames, with no other identity
C10_Witness ==
    /\ InLedger(0) /\ ~InLedger(1)
    /\ trackableObjects[0].centroids = <<300, 290, 260, 240>>
    /\ totalUp = 1 /\ totalDown = 0

\* all recorded centroids of the object lie on one side of the midline
OneSide(to, H) ==
    \/ \A i \in 1..Len(to.centroids) : to.centroids[i] < H \div 2
    \/ \A i \in 1..Len(to.centroids) : to.centroids[i] > H \div 2

\* C11 (as claimed): an identity whose recorded centroids all lie on the same
\* side of the midline has contributed nothing to total_in or total_out.
C11_NeverCrossingNeverCounted ==
    \A id \in ObjectIDs :
        (InLedger(id) /\ OneSide(trackableObjects[id], FrameH))
            => (outs[id] = 0 /\ ins[id] = 0)


(* ================== properties of the tracker machine ================== *)
\* the identities handed out so far that are no longer live
Deregistered(t) == (0..(t.nextObjectID - 1)) \ Live(t)

\* C20: a live identity's disappearance counter never exceeds maxDisappeared;
\* an update() without a match for it adds one to the counter, and the one
\* that would make it exceed maxDisappeared removes the identity from the
\* result; a deregistered identity never is in a result again.  With
\* maxDisappeared = 40: an identity registered by the first call and followed
\* by calls without boxes is in the results of calls 2 to 41 and in none from
\* call 42 on.
C20_DeregisteredAfterGracePeriod ==
    /\ [](\A id \in Live(ct) : ct.disappeared[id] <= maxDisappeared)
    /\ [][\A id \in Live(ct) :
            /\ id \in Live(ct')
                 => ct'.disappeared[id] \in {0, ct.disappeared[id] + 1}
            /\ (ct.disappeared[id] = maxDisappeared /\ id \in Live(ct'))
                 => ct'.disappeared[id] = 0]_vars
    /\ [][Deregistered(ct) \subseteq Deregistered(ct')]_vars
    /\ [](scenarioA =>
            /\ updates \in 1..41
                 => (Live(ct) = {0} /\ ct.disappeared[0] = updates - 1)
            /\ updates >= 42 => (Live(ct) = {} /\ Deregistered(ct) = {0}))

\* C20 witness: the scenario's 42nd call has just deregistered identity 0
C20_Witness ==
    /\ scenarioA
    /\ updates = 42
    /\ Deregistered(ct) = {0}

\* C21: an identity that update() newly puts in its result is a non-negative
\* integer that has been in no earlier result, whether that earlier identity
\* is still live or has been deregistered.
C21_IdentitiesNeverReused ==
    /\ [](Live(ct) \subseteq Nat /\ Live(ct) \subseteq registered)
    /\ [][(Live(ct') \ Live(ct)) \cap registered = {}]_vars

\* C21 witness: the object at BoxA was identity 0, was deregistered after its
\* grace period, and re-appeared as identity 1
C21_Witness ==
    /\ registered = {0, 1}
    /\ Live(ct) = {1}
    /\ ct.objects[1] = Centroid(BoxA)
    /\ updates = 43

\* the centroids of the boxes are pairwise farther apart than 2 * maxDistance
FarApart(rects) ==
    \A i, j \in 1..Len(rects) :
        i # j => Dist2(Centroid(rects[i]), Centroid(rects[j]))
                    > (2 * maxDistance) * (2 * maxDistance)

\* C22: the first update() of a tracker, with N boxes that are far apart,
\* returns N identities, and the centroids they are mapped to are the
\* centroids of the N boxes, one identity for each box.
C22_FirstUpdateRegistersAll ==
    [][\A rects \in TrackInputs :
         (updates = 0 /\ FarApart(rects) /\ ct_update(rects))
            => /\ Cardinality(Live(ct')) = Len(rects)
               /\ Live(ct') \cap registered = {}
               /\ \A i \in 1..Len(rects) :
                     \E id \in Live(ct') :
                        /\ ct'.objects[id] = Centroid(rects[i])
                        /\ \A k \in Live(ct') \ {id} :
                              ct'.objects[k] # Centroid(rects[i])]_vars

\* C22 witness: the first call had the two far boxes and returned two
\* identities with the boxes' centroids
C22_Witness ==
    /\ updates = 1
    /\ Live(ct) = {0, 1}
    /\ {ct.objects[0], ct.objects[1]} = {<<100, 100>>, <<300, 100>>}

(* ================= properties of the aggregator machine ================ *)
Recorded == {t \in AggTasks : lastAdded[t] # None}

LatestIn == [t \in Recorded |-> Get(lastAdded[t], "total_in", 0)]

LatestOut == [t \in Recorded |-> Get(lastAdded[t], "total_out", 0)]

Replayed == \A t \in AggTasks : RecordsOf(resultsB, t) = RecordsOf(results, t)

IsPrefix(p, q) == Len(p) <= Len(q) /\ \A i \in 1..Len(p) : p[i] = q[i]

\* C13 (as claimed): every operation of the aggregator leaves the stored
\* records where they are: each task's history before the operation is a
\* prefix of its history after it, and a task_id with a history keeps one.
C13_AppendOnly ==
    [][\A t \in AggTasks :
         /\ IsPrefix(RecordsOf(results, t), RecordsOf(results', t))
         /\ KeyIndex(results, t) # 0 => KeyIndex(results', t) # 0]_vars

\* a history a worker produces for one Task: periodic records, then the final
\* record of count_people's finally block, then possibly run()'s error record
Producible(records) ==
    /\ records # <<>>
    /\ \E k \in 0..Len(records) :
          /\ \A i \in 1..k : records[i].status = "Tracking"
          /\ LET tail == [i \in 1..(Len(records) - k) |-> records[k + i].status]
             IN tail \in {<<"completed">>, <<"completed", "error">>}

\* C18 (as claimed): for a task whose history is one a worker can produce,
\* export_to_csv succeeds and writes the header and one row per record.
C18_CsvOneRowPerRecord ==
    \A t \in AggTasks :
        Producible(RecordsOf(results, t))
            => LET csv == export_to_csv(results, t)
               IN csv.outcome = "written" /\ csv.rows = Len(RecordsOf(results, t))

\* C14 (as claimed): get_summary, run by one thread while another runs
\* add_result, never fails, and the summary it returns is that of the store
\* as it was between two complete add_result operations.
C14_SummaryBetweenAdds ==
    /\ sumThread.pc # "RuntimeError"
    /\ sumThread.pc = "done"
          => SummaryOf(sumThread) \in {get_summary(store) : store \in snapshots}

\* C4: the summary's overall total_in / total_out are the sums, over the
\* tasks with a record, of the counters of the task's most recently added
\* record (0 for a record without counters), net_count is their difference,
\* and a handler that got the same records in another order across tasks
\* gives the same totals.
C4_SummaryFromLatest ==
    LET overall == get_summary(results).overall IN
    /\ overall.total_in = SumOver(LatestIn, Recorded)
    /\ overall.total_out = SumOver(LatestOut, Recorded)
    /\ overall.net_count = overall.total_in - overall.total_out
    /\ Replayed => get_summary(resultsB).overall = overall

\* C4 witness: two tasks whose records arrived in different orders at the two
\* handlers, one task with an older record that differs from its latest
C4_Witness ==
    /\ Replayed
    /\ Len(results) = 2
    /\ results[1].task_id # resultsB[1].task_id
    /\ \E i \in 1..2 :
          /\ Len(results[i].records) = 2
          /\ Get(results[i].records[1], "total_in", 0) = 1
          /\ Get(results[i].records[2], "total_in", 0) = 0
    /\ get_summary(results).overall.total_in = 1

(* ======================= properties of TaskQueue ======================= *)
\* C23: TaskQueue is a FIFO queue that gives back what it was given: the size
\* is the number of tasks enqueued and not yet dequeued, and the task a
\* dequeue returns is the oldest one not yet dequeued, with the field values it
\* was enqueued with.
C23_FifoSameValues ==
    /\ Len(redis_list) = Len(qhist) - qtaken
    /\ (qret.op = "dequeue" /\ qret.task # None) => qret.task = qhist[qtaken]

(* ===================== properties of BatchProcessor ==================== *)
\* C24: every item added is handed to process_fn exactly once and in insertion
\* order (the items handed so far, followed by the items still queued, are the
\* items added), total_items counts the items added, and after a flush the
\* queue is empty and total_items is the number of items handed over.
C24_EveryItemHandedOnce ==
    /\ handed \o batch_queue = added
    /\ total_items = Len(added)
    /\ lastCall = "flush" => (batch_queue = <<>> /\ total_items = Len(handed))

\* three items, the first two handed over as a full batch, the third by flush
C24_Witness ==
    /\ lastCall = "flush"
    /\ added = <<"test_0", "test_1", "test_2">>
    /\ handed = added
    /\ total_batches = 2

(* ======================= properties of CameraPool ====================== *)
\* C25: add_camera returns True exactly when the camera_id was not in the pool
\* and the new worker's start() succeeded (the camera opened and its thread
\* started), and the camera_id is then in the pool; otherwise it returns False
\* and leaves workers and callbacks as they were.  Every worker in the pool is
\* one whose start() returned True.
C25_AddCameraIffStarted ==
    /\ [](\A id \in CameraIds :
             cam_workers[id] # None => cam_workers[id].start_returned)
    /\ [][\A camera_id \in CameraIds, camera_url \in CameraUrls,
             callback \in Callbacks, outcome \in StartOutcomes :
             CameraPool_add_camera(camera_id, camera_url, callback, outcome) =>
                /\ camret'.value = (cam_workers[camera_id] = None /\ outcome = "opened")
                /\ camret'.value => cam_workers'[camera_id] # None
                /\ ~camret'.value => UNCHANGED <<cam_workers, cam_callbacks>>]_vars

\* test_cam is in the pool with its callback, and adding cam2 has just failed
C25_Witness ==
    /\ camret = [op |-> "add_camera", camera_id |-> "cam2", value |-> FALSE]
    /\ cam_workers["test_cam"] # None
    /\ cam_callbacks["test_cam"] # None
    /\ cam_workers["cam2"] = None

(* =================== properties of the shared detector ================= *)
\* C26 (as claimed): the detections a worker has after forward() are the ones
\* computed from the blob of its own current frame, under every interleaving
\* of the workers' setInput and forward calls.
C26_OwnDetections ==
    \A w \in Workers : dpc[w] = "done" => detections[w] = Blob(w)

(* ================== properties of the result collection ================ *)
\* the number of records the workers have put on the result queue so far:
\* those appended to the aggregator and those still on the queue
Emitted == RecordCount(results) + Len(result_queue)

\* C27 (as claimed): every record put on the result queue is eventually
\* appended to the aggregator: once n records have been emitted, eventually n
\* records have been appended, whether or not stop_processing has run.
C27_EveryRecordCollected ==
    \A n \in 1..(2 * Cardinality(Sources)) :
        (Emitted >= n) ~> (RecordCount(results) >= n)

(* ===================== properties of a camera Task ===================== *)
\* C28 (as claimed): a worker whose camera has stopped delivering frames
\* eventually leaves the frame loop, emits its terminal record, releases the
\* source and is free again: back at task_queue.get, or ended by a sentinel.
C28_StalledCameraEnds ==
    \A w \in Workers : (vs[w] = "stalled") ~> (pc[w] \in {"get", "done"})

(* ================== properties of a Task's records ===================== *)
\* the record is a periodic one: its status is a phase of the frame loop
IsPeriodic(r) == r.status \in {"Waiting", "Detecting", "Tracking"}

\* C29: while the Task is in its frame loop the records emitted are the
\* periodic ones of frames 10, 20, ... up to the frames processed; the step
\* that leaves the loop emits one record with status completed whose
\* frame_count is the number of frames processed; so afterwards the Task's
\* records are floor(N/10) periodic records of frames 10, 20, ... followed by
\* the one completed record with frame_count N (and at most an error record
\* of the clean-up after it).
C29_PeriodicThenFinal ==
    /\ [](pc[ReportWorker] = "loop" =>
            /\ Len(result_queue) = totalFrames[ReportWorker] \div 10
            /\ \A k \in 1..Len(result_queue) :
                  /\ IsPeriodic(result_queue[k])
                  /\ result_queue[k].frame_count = 10 * k)
    /\ [][(pc[ReportWorker] = "loop" /\ pc'[ReportWorker] # "loop") =>
            /\ result_queue' = Append(result_queue, Last(result_queue'))
            /\ Last(result_queue').status = "completed"
            /\ Last(result_queue').frame_count = totalFrames[ReportWorker]]_vars
    /\ [](pc[ReportWorker] = "cleanup" => result_queue # <<>>)
    /\ [](\A k \in 1..Len(result_queue) :
            result_queue[k].status = "completed" =>
               /\ k = result_queue[k].frame_count \div 10 + 1
               /\ \A j \in 1..(k - 1) :
                     /\ IsPeriodic(result_queue[j])
                     /\ result_queue[j].frame_count = 10 * j
               /\ \A j \in (k + 1)..Len(result_queue) :
                     result_queue[j].status = "error")

\* a Task of 21 frames has emitted the records of frames 10 and 20 and its
\* final record
C29_Witness ==
    /\ pc[ReportWorker] = "cleanup"
    /\ Len(result_queue) = 3
    /\ result_queue[1].frame_count = 10
    /\ result_queue[2].frame_count = 20
    /\ result_queue[3].status = "completed"
    /\ result_queue[3].frame_count = 21

(* ============== properties of the detect and track phases ============== *)
\* the indices of the detections of the latest detector call that pass the
\* confidence, class and box tests
AcceptedRows(rows) == {k \in 1..Len(rows) : Accepted(rows[k])}

\* C30: frame i (from 0) is a detect frame iff i mod 30 = 0.  On a detect
\* frame the detector is called once, the short-lived trackers are replaced
\* by one tracker per accepted detection, and ct.update gets an empty list;
\* on any other frame the detector is not called, the trackers stay, and
\* ct.update gets exactly one rectangle per tracker.
C30_DetectEverySkipFrames ==
    [][frameIndex' = frameIndex + 1 =>
         IF frameIndex % 30 = 0
         THEN /\ frameStatus' = "Detecting"
              /\ forwardCalls' = forwardCalls + 1
              /\ Len(trackers') = Cardinality(AcceptedRows(frameDetections'))
              /\ \A k \in AcceptedRows(frameDetections') :
                    \E j \in 1..Len(trackers') : trackers'[j] = frameDetections'[k].box
              /\ updateRects' = <<>>
         ELSE /\ frameStatus' = "Tracking"
              /\ forwardCalls' = forwardCalls
              /\ trackers' = trackers
              /\ Len(updateRects') = Len(trackers)]_vars

\* frame 31, the first after the second detect frame, which started two
\* trackers: two rectangles went to ct.update
C30_Witness ==
    /\ frameIndex = 32
    /\ forwardCalls = 2
    /\ frameStatus = "Tracking"
    /\ Len(trackers) = 2
    /\ Len(updateRects) = 2

(* ============ properties of the boxes given to the tracker ============= *)
\* C31 (as claimed): every rectangle passed to ct.update has non-negative
\* coordinates and positive width and height, whether it comes from the
\* detector or from a short-lived tracker.
C31_OnlyValidBoxesReachTracker ==
    \A k \in 1..Len(updateRects) :
        LET box == updateRects[k] IN
        /\ box[1] >= 0 /\ box[2] >= 0
        /\ box[3] > box[1] /\ box[4] > box[2]

\* C32 (as claimed): on a detect frame a tracker is started for exactly the
\* detections of category person whose confidence is at least the threshold
\* (and whose box is finite and well-formed), a confidence equal to the
\* threshold included.
C32_ThresholdInclusive ==
    frameStatus = "Detecting" =>
        Len(trackers) =
            Cardinality({k \in 1..Len(frameDetections) :
                LET row == frameDetections[k] IN
                /\ row.class = "person"
                /\ row.confidence_score >= 40
                /\ row.finite
                /\ row.box[1] >= 0 /\ row.box[2] >= 0
                /\ row.box[3] > row.box[1] /\ row.box[4] > row.box[2]})

(* ================= properties of a Task's private state ================ *)
\* C33: each count_people call starts from an empty tracker whose next
\* identity is 0, an empty ledger and counters at zero, so the totals of a
\* Task's final record are exactly the crossings counted during that call,
\* never those of an earlier Task of the same worker.
C33_StateFreshPerTask ==
    /\ [](\A t \in 1..MaxTasks :
            reported[t] # NotReported => reported[t] = <<taskIn[t], taskOut[t]>>)
    /\ [][taskNo' # taskNo =>
            /\ ct'.nextObjectID = 0
            /\ Live(ct') = {}
            /\ \A id \in ObjectIDs : trackableObjects'[id] = None
            /\ totalUp' = 0 /\ totalDown' = 0]_vars

\* the first Task counted one crossing and used identity 0; the second Task,
\* by the same worker, has registered identity 0 again and reported no crossing
C33_Witness ==
    /\ reported[1] # NotReported
    /\ reported[1][1] + reported[1][2] = 1
    /\ reported[2] = <<0, 0>>
    /\ taskNo = 2
    /\ Live(ct) = {0}
    /\ trackableObjects[0] # None

(* ======================== properties of task_ids ======================= *)
\* C34 (as claimed): the Tasks accepted by add_camera and add_video have
\* pairwise distinct task_ids, whatever camera_id / video_id values the
\* caller passes.
C34_DistinctTaskIds ==
    \A i, j \in TasksIn(task_queue) :
        i # j => task_queue[i].task_id # task_queue[j].task_id

(* =================== properties of the summary totals ================== *)
\* the entry get_summary shows for task_id t, with zero totals when it shows
\* none
Shown(store, t) ==
    LET tasks == get_summary(store).tasks
        idx == {k \in 1..Len(tasks) : tasks[k].task_id = t}
    IN IF idx = {} THEN [total_in |-> 0, total_out |-> 0]
       ELSE LET e == tasks[CHOOSE k \in idx : TRUE]
            IN [total_in |-> e.total_in, total_out |-> e.total_out]

\* a history one worker produces for one Task, its counters never decreasing
\* from one counter-carrying record to the next
WorkerHistory(records) ==
    /\ Producible(records)
    /\ \A i, j \in 1..Len(records) :
          (i < j /\ "total_in" \in DOMAIN records[i] /\ "total_in" \in DOMAIN records[j])
             => /\ records[i].total_in <= records[j].total_in
                /\ records[i].total_out <= records[j].total_out

\* C35 (as claimed): when a further record of a task arrives (periodic,
\* completed or error), the total_in and total_out the summary shows for the
\* task do not decrease.
C35_SummaryTotalsNeverDecrease ==
    [][\A t \in AggTasks :
         (/\ Len(RecordsOf(results', t)) = Len(RecordsOf(results, t)) + 1
          /\ IsPrefix(RecordsOf(results, t), RecordsOf(results', t))
          /\ WorkerHistory(RecordsOf(results', t)))
            => /\ Shown(results', t).total_in >= Shown(results, t).total_in
               /\ Shown(results', t).total_out >= Shown(results, t).total_out]_vars

(* ===================== properties of the JSON export =================== *)
\* C36 (as claimed): in the data an export writes every task of detailed_results that has records is in the summary, with
\* total_updates equal to the number of its records and total_in and
\* total_out equal to those of its last record, also while the collector
\* adds results.
C36_ExportIsSnapshot ==
    export.pc = "written" =>
          \A i \in 1..Len(export.detailed_results) :
              LET d == export.detailed_results[i]
                  shown == {k \in 1..Len(export.summary.tasks) :
                               export.summary.tasks[k].task_id = d.task_id}
              IN d.records # <<>> =>
                   /\ shown # {}
                   /\ \A k \in shown :
                         LET e == export.summary.tasks[k] IN
                         /\ e.total_updates = Len(d.records)
                         /\ e.total_in = Get(Last(d.records), "total_in", 0)
                         /\ e.total_out = Get(Last(d.records), "total_out", 0)

(* ------------------------------ C37 ------------------------------------ *)
\* C37 (as claimed): in every reachable state stats.completed_tasks is at
\* most stats.total_tasks, also when Tasks are added while the workers and
\* the collector are running.
C37_CompletedAtMostTotal == stats.completed_tasks <= stats.total_tasks

(* ------------------------------ C38 ------------------------------------ *)
\* every Task main submitted has finished: the task queue is empty and every
\* worker is back in task_queue.get
AllTasksFinished ==
    /\ mainpc = "wait"
    /\ task_queue = <<>>
    /\ \A w \in workers : pc[w] = "get"

\* C38 (as claimed): once every submitted Task has finished and the task
\* queue is empty, main's wait loop ends and main goes on to the export and
\* the final summary.
C38_WaitLoopEnds == AllTasksFinished ~> (mainpc = "export")

(* ------------------------------ C39 ------------------------------------ *)
\* C39: under every interleaving of the reader thread and one consumer the
\* frame queue holds at most one frame, and read() returns frames in capture
\* order: each frame it returns is newer than every frame it returned before
\* (so none twice), and is a frame the device delivered.
C39_LatestFrameInOrder ==
    /\ Len(frame_q) <= 1
    /\ \A i \in 1..Len(frames_read) :
          /\ frames_read[i] \in 1..captured
          /\ \A j \in 1..Len(frames_read) : i < j => frames_read[i] < frames_read[j]

\* read() has returned two frames with a dropped one in between, and the
\* consumer has just overtaken the reader between its test and its
\* get_nowait: the reader is about to find the queue empty
C39_Witness ==
    /\ Len(frames_read) >= 2
    /\ frames_read[Len(frames_read)] > frames_read[Len(frames_read) - 1] + 1
    /\ lastRead = Frame(frames_read[Len(frames_read)])
    /\ frame_q = <<>>
    /\ rpc = "drop"

============================================================================
